---- MODULE Spec2Model ----
(***************************************************************************)
(* Conversation/session orchestration of the Intellecto client (App.tsx,   *)
(* Chat.tsx, ChatMessage.tsx).  React state is modelled as the committed   *)
(* values of chatSessions, activeChatId and isLoading; every handler's     *)
(* synchronous segment is one atomic action (its setState calls applied in *)
(* order), and every `await` splits a handler into a task that resumes     *)
(* later with the values its closure captured.                             *)
(***************************************************************************)
EXTENDS Integers, Sequences, FiniteSets, TLC

\* ---------------------------------------------------------------- bounds
MaxClock == 1
MaxSessions == 2
MaxMessages == 3
MaxTasks == 2
MaxStale == 1
MaxOps == 3

\* ---------------------------------------------------------------- strings
\* A string is a sequence of characters, so that trim() and toLowerCase()
\* are computed, not assumed.
IsSpace(c) == c \in {" ", "\t", "\n"}

LowerChar(c) ==
  CASE c = "H" -> "h" [] c = "E" -> "e" [] c = "L" -> "l" [] c = "P" -> "p"
    [] c = "N" -> "n" [] c = "W" -> "w" [] c = "C" -> "c" [] c = "A" -> "a"
    [] c = "T" -> "t" [] c = "D" -> "d" [] c = "S" -> "s" [] c = "I" -> "i"
    [] c = "R" -> "r" [] c = "O" -> "o" [] c = "Y" -> "y" [] c = "M" -> "m"
    [] OTHER -> c

ToLowerCase(s) == [i \in 1..Len(s) |-> LowerChar(s[i])]

RECURSIVE TrimStart(_)
TrimStart(s) == IF s # <<>> /\ IsSpace(Head(s)) THEN TrimStart(Tail(s)) ELSE s

RECURSIVE TrimEnd(_)
TrimEnd(s) ==
  IF s # <<>> /\ IsSpace(s[Len(s)]) THEN TrimEnd(SubSeq(s, 1, Len(s) - 1)) ELSE s

Trim(s) == TrimEnd(TrimStart(s))

CmdNewChat == <<"n","e","w"," ","c","h","a","t">>
CmdDeleteChat ==
  <<"d","e","l","e","t","e"," ","t","h","i","s"," ","c","h","a","t">>
CmdClearHistory == <<"c","l","e","a","r"," ","h","i","s","t","o","r","y">>
CmdHelp == <<"h","e","l","p">>
Commands == {CmdNewChat, CmdDeleteChat, CmdClearHistory, CmdHelp}

\* Fixed texts of the program, kept as one-token strings.
GreetingText == <<"GREETING">>
HelpText == <<"HELPTEXT">>
ReplyText == <<"REPLY">>
ThinkingImageText == <<"GENERATING">>
ThinkingTaskText == <<"THINKING">>
ImageResultText == <<"HERE-IS-IMAGE">>
ComplexResultText == <<"SOLUTION">>
GenericErrorText == <<"SOMETHING-WENT-WRONG">>
EditErrorText == <<"WRONG-WHILE-REWRITING">>
QuotaErrorText == <<"QUOTA-EXCEEDED">>
NewChatTitle == <<"New Chat">>
NoTitle == <<>>

\* null, and the decimal string Date.now().toString() of a session id.
None == <<>>
SessionId(t) == <<t>>
NoId == <<"noid">>

\* ---------------------------------------------------------------- data
Msg(id, role, text, image, generatedImage, isError) ==
  [id |-> id, role |-> role, text |-> text, image |-> image,
   generatedImage |-> generatedImage, isError |-> isError]

\* No message (undefined).
NoMsg == [id |-> NoId]

createInitialMessage(t) == Msg(<<"initial", t>>, "model", GreetingText, FALSE, FALSE, FALSE)

NewSession(t) ==
  [id |-> SessionId(t), title |-> NewChatTitle, messages |-> <<createInitialMessage(t)>>]

\* Array.prototype.filter(x => x.id !== id)
WithoutId(s, id) ==
  LET F[i \in 0..Len(s)] ==
        IF i = 0 THEN <<>>
        ELSE IF s[i].id # id THEN Append(F[i-1], s[i]) ELSE F[i-1]
  IN F[Len(s)]

\* The messages of a collection beyond one greeting per session.
RECURSIVE Extra(_)
Extra(S) == IF S = <<>> THEN 0 ELSE (Len(Head(S).messages) - 1) + Extra(Tail(S))

\* Array.prototype.findIndex, 1-based; 0 when absent.
FindSession(S, id) ==
  IF \E i \in 1..Len(S) : S[i].id = id
  THEN CHOOSE i \in 1..Len(S) : S[i].id = id /\ \A j \in 1..(i-1) : S[j].id # id
  ELSE 0

FindMessage(M, id) ==
  IF \E i \in 1..Len(M) : M[i].id = id
  THEN CHOOSE i \in 1..Len(M) : M[i].id = id /\ \A j \in 1..(i-1) : M[j].id # id
  ELSE 0


\* ---------------------------------------------------------------- state
VARIABLES
  chatSessions,   \* App state: ChatSession[] (newest first)
  activeChatId,   \* App state: id of the active session, or null
  isLoading,      \* App state: the busy flag
  now,            \* Date.now()
  tasks,          \* suspended handleSendMessage / handleEditMessage calls
  rec,            \* the closure of a started speech recognizer, or none
  storage,        \* localStorage[CHAT_SESSIONS_KEY]
  booted,         \* the load effect has run
  ops,            \* how many user inputs the run has seen
  last,           \* the last step: which handler ran, the input it was given
                  \* and the backend calls it issued
  failedCalls,    \* the prompts of the sub-calls that have rejected so far
  isAutoListenEnabled,  \* App state: the auto-listen switch
  chat,           \* Chat: its voice state, its recognizers and audio sources, and
                  \* what the platform holds for them
  autoStart,      \* the auto-listen effect of the last render called start()
  prevIsLoading,  \* Chat: the ref of usePrevious(isLoading)
  spoken          \* the message the last step handed to textToSpeech, if any

\* The voice side of the program.
voiceVars == <<isAutoListenEnabled, chat, autoStart>>

vars == <<chatSessions, activeChatId, isLoading, now, tasks, rec, storage, booted, ops, last,
          failedCalls, isAutoListenEnabled, chat, autoStart, prevIsLoading, spoken>>

\* One more user input (a click, a key press, a spoken phrase).
UserInput == ops < MaxOps /\ ops' = ops + 1

NoTask == [pc |-> "none"]
NoRec == [on |-> FALSE]

\* What localStorage holds under the key: nothing; a string the load effect
\* throws on; the JSON text of a collection.
NoRecord == [kind |-> "none"]
CorruptRecord == [kind |-> "corrupt"]
JsonRecord(S) == [kind |-> "json", sessions |-> S]

\* A collection written by an earlier run of the program.
OldCollection ==
  << [id |-> SessionId(-1), title |-> <<"Old">>,
      messages |-> << createInitialMessage(-1),
                      Msg(<<"user", -1>>, "user", <<"h","e","l","p"," ","m","e">>,
                          FALSE, FALSE, FALSE) >>] >>

\* App re-renders when its state changes; the effect that owns the recognizer
\* then stops it and builds a new one, so a started recognizer outlives at
\* most MaxStale such updates before its result or end event arrives.
Rerender(sessions, active, loading) ==
  LET changed == <<sessions, active, loading>> # <<chatSessions, activeChatId, isLoading>>
  IN /\ (rec.on /\ changed) => rec.age < MaxStale
     /\ rec' = IF rec.on /\ changed THEN [rec EXCEPT !.age = @ + 1] ELSE rec

Randoms == {1, 2}

Last(op, arg, calls) == [op |-> op, arg |-> arg, calls |-> calls]

\* ---------------------------------------------------------------- SessionStore
\* setChatSessions(prev => [newSession, ...prev]); setActiveChatId(newId)
handleNewChat(prev, t) ==
  [sessions |-> <<NewSession(t)>> \o prev, active |-> SessionId(t)]

\* handleDeleteChat without the re-pointing of the active id.
handleDeleteChat_keepActive(cs, ca, curActive, idToDelete, t) ==
  [sessions |-> WithoutId(cs, idToDelete), active |-> curActive]

\* chatSessions and activeChatId are the values the handler's closure holds;
\* curActive is the committed activeChatId, kept when no setter is called.
handleDeleteChat(cs, ca, curActive, idToDelete, t) ==
  LET updatedSessions == WithoutId(cs, idToDelete)
  IN IF ca = idToDelete
     THEN IF Len(updatedSessions) > 0
          THEN [sessions |-> updatedSessions, active |-> updatedSessions[1].id]
          ELSE handleNewChat(updatedSessions, t)
     ELSE [sessions |-> updatedSessions, active |-> curActive]

\* setChatSessions(prev => prev.map(...)): applied to the committed collection.
updateSessionMessages(prev, sessionId, newMessages, newTitle) ==
  [i \in 1..Len(prev) |->
     IF prev[i].id = sessionId
     THEN [prev[i] EXCEPT !.messages = newMessages,
                          !.title = IF newTitle # NoTitle THEN newTitle ELSE @]
     ELSE prev[i]]

\* The properties every message of the model carries; an optional one that a
\* message lacks (undefined) is held as FALSE, a lacking id as NoId.
MessageKeys == {"id", "role", "text", "image", "generatedImage", "isError"}
OptionalKeys == {"image", "generatedImage", "isError"}

\* JSON.stringify of a message: its defined properties, the others left out.
StringifyMessage(m) ==
  IF DOMAIN m = MessageKeys /\ m.id # NoId /\ ~m.image /\ ~m.generatedImage /\ ~m.isError
  THEN [id |-> m.id, role |-> m.role, text |-> m.text]
  ELSE [k \in {key \in DOMAIN m : /\ ~(key \in OptionalKeys /\ m[key] = FALSE)
                                   /\ ~(key = "id" /\ m[key] = NoId)} |-> m[k]]

\* JSON.parse of a message: the properties the text holds; reading any other
\* property of the object gives undefined.
ParseMessage(j) ==
  IF DOMAIN j \subseteq MessageKeys
  THEN Msg(IF "id" \in DOMAIN j THEN j.id ELSE NoId, j.role, j.text,
           "image" \in DOMAIN j /\ j.image,
           "generatedImage" \in DOMAIN j /\ j.generatedImage,
           "isError" \in DOMAIN j /\ j.isError)
  ELSE [k \in DOMAIN j \cup MessageKeys |->
          IF k \in DOMAIN j THEN j[k] ELSE IF k = "id" THEN NoId ELSE FALSE]

\* JSON.stringify(chatSessions)
Stringify(S) ==
  [i \in 1..Len(S) |->
     [id |-> S[i].id, title |-> S[i].title,
      messages |-> [j \in 1..Len(S[i].messages) |-> StringifyMessage(S[i].messages[j])]]]

\* JSON.parse(savedSessions)
Parse(J) ==
  [i \in 1..Len(J) |->
     [id |-> J[i].id, title |-> J[i].title,
      messages |-> [j \in 1..Len(J[i].messages) |-> ParseMessage(J[i].messages[j])]]]

\* The save effect: JSON.stringify(chatSessions) under the fixed key.
Save(S) == JsonRecord(Stringify(S))

\* The save effect runs in the render that follows a change of chatSessions
\* and stores the collection of that render.
SaveEffect(sessions) ==
  storage' = IF sessions = chatSessions THEN storage ELSE Save(sessions)

\* What the load effect finds at mount: the collection an earlier run stored.
StoredRecords == {Save(OldCollection)}

\* What it finds when no conversation was kept: no record, an unreadable one,
\* an emptied one.
UnusableRecords == {NoRecord, CorruptRecord, Save(<<>>)}

\* The messages of S without id, by session and position.
Idless(S) ==
  UNION { { <<i, j>> : j \in { n \in 1..Len(S[i].messages) : S[i].messages[n].id = NoId } } :
          i \in 1..Len(S) }

\* The load effect's sanitising map: a message without id gets
\* `${message.role}-${Date.now()}-${Math.random()}`, R[<<i, j>>] being what
\* Math.random() returns for message j of session i; every other property
\* is kept ({...message}).
Sanitize(S, t, R) ==
  [i \in 1..Len(S) |->
     [S[i] EXCEPT !.messages =
        [j \in 1..Len(S[i].messages) |->
           IF S[i].messages[j].id = NoId
           THEN [S[i].messages[j] EXCEPT !.id = <<S[i].messages[j].role, t, R[<<i, j>>]>>]
           ELSE S[i].messages[j]]]]

\* ---------------------------------------------------------------- voice state
\* How many replaced recognizers may still have events to deliver, how many
\* utterances may be on their way to the loudspeaker, how many turns in flight.
MaxReplaced == 1
MaxPlays == 2
MaxTurns == 1

\* micError: null, or one of the texts the code sets.
NoMicError == "null"
DeniedAccessText == "Microphone access was denied."
DeniedSettingsText == "Microphone access is denied."
RecognitionErrorText == "An error occurred with speech recognition."
UnsupportedText == "Speech recognition is not supported in this browser."
NoSupportText == "Sorry, your browser doesn't support speech recognition."
StartFailedText == "An error occurred trying to start speech recognition."

PermissionStates == {"prompt", "granted", "denied"}

\* SpeechRecognitionErrorEvent.error: the permission error, the three kinds the
\* handler keeps silent about, and one of the others.
RecognitionErrors == {"not-allowed", "no-speech", "network", "aborted", "audio-capture"}

\* speechRecognitionRef.current: null where the browser has no recognizer,
\* else an object that is idle, starting (start() called, no start event yet),
\* halting (stop() called before the start event), started, stopping (stop()
\* called after the start event) or ending (only its end event is due); by is
\* who called start().
NoRecognition == [st |-> "null", by |-> "none"]
NewRecognition == [st |-> "idle", by |-> "none"]

\* recognition.start(): throws InvalidStateError unless the object is idle.
CanStart(r) == r.st = "idle"
start(r, by) == [st |-> "starting", by |-> by]

\* recognition.stop(): ignored unless a recognition is under way.
stop(r) ==
  IF r.st = "starting" THEN [r EXCEPT !.st = "halting"]
  ELSE IF r.st = "started" THEN [r EXCEPT !.st = "stopping"]
  ELSE r

\* Chat after its first render and that render's effects: the permission
\* query is out, the recognizer is built and, micError being null in that
\* render, already started by the auto-listen effect.
Mount(supported, permission) ==
  [ isTtsEnabled |-> TRUE,
    isListening |-> FALSE,
    userManuallyStopped |-> FALSE,
    isTtsPlaying |-> FALSE,
    micError |-> IF supported THEN NoMicError ELSE UnsupportedText,
    micPermission |-> IF supported THEN "prompt" ELSE "denied",
    recognition |-> IF supported THEN start(NewRecognition, "auto") ELSE NoRecognition,
    replaced |-> {},              \* recognizers of earlier renders, stopped, events still due
    permission |-> permission,    \* the platform's microphone permission
    queryPending |-> TRUE,        \* navigator.permissions.query not yet settled
    watched |-> FALSE,            \* permissionStatus.onchange is set
    tts |-> 0,                    \* textToSpeech promises pending
    decoding |-> 0,               \* playTextAudio calls awaiting resume / decodeAudioData
    sources |-> 0,                \* started sources whose onended is set
    active |-> FALSE,             \* activeAudioSourceRef.current is one of them
    turns |-> 0 ]                 \* handleSendMessage calls awaiting the backend

\* ---------------------------------------------------------------- speech output
\* The ref of usePrevious before the first render of Chat.
Undefined == <<>>

\* The effect that fires on every render, whatever the busy flag did.
TtsTrigger_everyRender(enabled, prev, loading, lastMessage) ==
  /\ enabled /\ ~loading
  /\ lastMessage # NoMsg
  /\ lastMessage.role = "model" /\ lastMessage.text # <<>> /\ ~lastMessage.isError

\* The condition of the text-to-speech effect: isTtsEnabled && prevIsLoading
\* && !isLoading && lastMessage?.role === 'model' && lastMessage.text &&
\* !lastMessage.isError.
TtsTrigger(enabled, prev, loading, lastMessage) ==
  /\ enabled /\ prev = <<TRUE>> /\ ~loading
  /\ lastMessage # NoMsg
  /\ lastMessage.role = "model" /\ lastMessage.text # <<>> /\ ~lastMessage.isError

\* The render of Chat that follows a step which left App's state as sessions,
\* active and loading and Chat's speaker switch as enabled: usePrevious yields
\* the busy flag of the render before and then keeps this one; the
\* text-to-speech effect hands the last message of the shown session to
\* textToSpeech when its condition holds.  Chat is rendered only for an
\* existing active session.
TtsEffect(sessions, active, loading, enabled) ==
  LET idx == IF active = None THEN 0 ELSE FindSession(sessions, active)
      messages == IF idx = 0 THEN <<>> ELSE sessions[idx].messages
      lastMessage == IF messages = <<>> THEN NoMsg ELSE messages[Len(messages)]
  IN IF idx = 0
     THEN prevIsLoading' = Undefined /\ spoken' = NoMsg
     ELSE /\ prevIsLoading' = <<loading>>
          /\ spoken' = IF TtsTrigger(enabled, prevIsLoading, loading, lastMessage)
                       THEN lastMessage ELSE NoMsg

\* A step after which Chat does not render with new props.
NoRender == prevIsLoading' = prevIsLoading /\ spoken' = NoMsg

Init ==
  /\ chatSessions = <<>>
  /\ activeChatId = None
  /\ isLoading = FALSE
  /\ now = 0
  /\ tasks = <<>>
  /\ rec = NoRec
  /\ storage \in StoredRecords
  /\ booted = FALSE
  /\ ops = 0
  /\ last = Last("init", <<>>, <<>>)
  /\ failedCalls = {}
  /\ isAutoListenEnabled = TRUE
  /\ chat = Mount(TRUE, "granted")
  /\ autoStart = TRUE
  /\ prevIsLoading = Undefined
  /\ spoken = NoMsg

\* The stored messages the load effect has to give an id.
StoredIdless(record) ==
  IF record.kind = "json" THEN Idless(Parse(record.sessions)) ELSE {}

\* The load effect taking a stored empty collection for the collection.
loadSessions_keepEmpty(record, t, R) ==
  IF record.kind = "json"
  THEN LET loaded == Sanitize(Parse(record.sessions), t, R)
       IN [sessions |-> loaded, active |-> IF loaded = <<>> THEN None ELSE loaded[1].id]
  ELSE handleNewChat(<<>>, t)

\* The load effect: the stored collection, sanitised, with its first session
\* active; handleNewChat() when nothing is stored, when the stored collection
\* is empty, and in the catch block (JSON.parse or the sanitising map threw).
loadSessions(record, t, R) ==
  LET loaded == IF record.kind = "json" THEN Sanitize(Parse(record.sessions), t, R) ELSE <<>>
  IN IF record.kind = "json" /\ Len(loaded) > 0
     THEN [sessions |-> loaded, active |-> loaded[1].id]
     ELSE handleNewChat(<<>>, t)

\* Mount taken as one step: the load effect, then the save effect of the
\* resulting render (MountEffects and MountCommit tell the two renders apart).
\* last.arg keeps the record the load effect found.
Boot ==
  /\ ~booted
  /\ booted' = TRUE
  /\ \E R \in [StoredIdless(storage) -> Randoms] :
       LET res == loadSessions(storage, now, R)
       IN /\ chatSessions' = res.sessions
          /\ activeChatId' = res.active
          /\ storage' = Save(res.sessions)
          /\ TtsEffect(res.sessions, res.active, isLoading, chat.isTtsEnabled)
  /\ last' = Last("boot", storage, <<>>)
  /\ UNCHANGED <<isLoading, now, tasks, rec, ops, failedCalls, voiceVars>>

\* Date.now() moves on; the clock reads 0 at mount.
Tick ==
  /\ booted /\ now < MaxClock
  /\ now' = now + 1
  /\ NoRender
  /\ UNCHANGED <<chatSessions, activeChatId, isLoading, tasks, rec, storage, booted, ops, last, failedCalls, voiceVars>>

\* Sidebar "New Chat" button.
NewChatClick ==
  /\ booted /\ UserInput
  /\ Len(chatSessions) < MaxSessions
  /\ LET res == handleNewChat(chatSessions, now)
     IN /\ chatSessions' = res.sessions
        /\ activeChatId' = res.active
        /\ SaveEffect(res.sessions)
        /\ Rerender(res.sessions, res.active, isLoading)
        /\ TtsEffect(res.sessions, res.active, isLoading, chat.isTtsEnabled)
  /\ last' = Last("new", <<>>, <<>>)
  /\ UNCHANGED <<isLoading, now, tasks, booted, failedCalls, voiceVars>>

\* Sidebar row click: handleSelectChat(session.id).
SelectChat ==
  /\ booted /\ UserInput
  /\ \E i \in 1..Len(chatSessions) :
       /\ activeChatId' = chatSessions[i].id
       /\ Rerender(chatSessions, chatSessions[i].id, isLoading)
       /\ TtsEffect(chatSessions, chatSessions[i].id, isLoading, chat.isTtsEnabled)
       /\ last' = Last("select", <<>>, <<>>)
  /\ UNCHANGED <<chatSessions, isLoading, now, tasks, storage, booted, failedCalls, voiceVars>>

\* Sidebar trash button of row i: handleDeleteChat(session.id), no confirmation.
DeleteChatClickOn(i) ==
  /\ booted /\ UserInput
  /\ i \in 1..Len(chatSessions)
  /\ LET res == handleDeleteChat(chatSessions, activeChatId, activeChatId,
                                 chatSessions[i].id, now)
     IN /\ chatSessions' = res.sessions
        /\ activeChatId' = res.active
        /\ SaveEffect(res.sessions)
        /\ Rerender(res.sessions, res.active, isLoading)
        /\ TtsEffect(res.sessions, res.active, isLoading, chat.isTtsEnabled)
  /\ last' = Last("delete", chatSessions[i].id, <<>>)
  /\ UNCHANGED <<isLoading, now, tasks, booted, failedCalls, voiceVars>>

DeleteChatClick == \E i \in 1..MaxSessions : DeleteChatClickOn(i)

\* ---------------------------------------------------------------- turns
\* The outcome of a handler's synchronous segment: the committed state after
\* its setState calls, the suspended rest of the call (task), and the backend
\* calls it issued.
Outcome(sessions, active, loading, task, calls) ==
  [sessions |-> sessions, active |-> active, loading |-> loading,
   task |-> task, calls |-> calls]

Unchanged == Outcome(chatSessions, activeChatId, isLoading, NoTask, <<>>)

\* A suspended turn.  kind: which handler; sid: its activeChatId; msgs: its
\* updatedMessages / newMessagesForUi; hist and message: what startChat and
\* sendMessage are given; base, think, fn: handleApiResponse's updatedMessages,
\* thinkingMessage and functionCall.name while a sub-call is awaited.
Task(pc, kind, sid, msgs, hist, message, image, base, think, fn) ==
  [pc |-> pc, kind |-> kind, sid |-> sid, msgs |-> msgs, hist |-> hist,
   message |-> message, image |-> image, base |-> base, think |-> think, fn |-> fn]

\* Array.prototype.slice(1)
Slice1(M) == IF Len(M) <= 1 THEN <<>> ELSE SubSeq(M, 2, Len(M))

\* The command match without case folding.
CommandOf_noFold(prompt) == Trim(prompt)

\* prompt.trim().toLowerCase()
CommandOf(prompt) == ToLowerCase(Trim(prompt))

\* The `delete this chat` case of handleSendMessage, run by a closure holding
\* chatSessions = cs and activeChatId = ca; confirm is window.confirm's answer.
cmdDeleteThisChat(cs, ca, confirm) ==
  IF ca # None /\ FindSession(cs, ca) # 0 /\ confirm
  THEN LET res == handleDeleteChat(cs, ca, activeChatId, ca, now)
       IN Outcome(res.sessions, res.active, isLoading, NoTask, <<>>)
  ELSE Unchanged

\* The `clear history` case without the confirmation gate.
cmdClearHistory_noGate(confirm) ==
  LET res == handleNewChat(<<>>, now)
  IN Outcome(res.sessions, res.active, isLoading, NoTask, <<>>)

\* The `clear history` case: setChatSessions([]); handleNewChat().
cmdClearHistory(confirm) ==
  IF confirm
  THEN LET res == handleNewChat(<<>>, now)
       IN Outcome(res.sessions, res.active, isLoading, NoTask, <<>>)
  ELSE Unchanged

\* The `help` case.
cmdHelp(cs, ca) ==
  LET idx == IF ca = None THEN 0 ELSE FindSession(cs, ca)
      helpMessage == Msg(<<"help", now>>, "model", HelpText, FALSE, FALSE, FALSE)
  IN IF idx # 0
     THEN Outcome(updateSessionMessages(chatSessions, ca,
                     Append(cs[idx].messages, helpMessage), NoTitle),
                  activeChatId, isLoading, NoTask, <<>>)
     ELSE Unchanged

\* handleSendMessage past the command switch, up to its first await.
startTurn(cs, ca, prompt, image) ==
  LET idx == IF ca = None THEN 0 ELSE FindSession(cs, ca)
  IN IF idx = 0 THEN Unchanged
     ELSE LET activeSession == cs[idx]
              userMessage == Msg(<<"user", now>>, "user", prompt, image, FALSE, FALSE)
              updatedMessages == Append(activeSession.messages, userMessage)
              title == Len(activeSession.messages) = 1 /\ Len(prompt) > 0
          IN Outcome(updateSessionMessages(chatSessions, ca, updatedMessages, NoTitle),
                     activeChatId, TRUE,
                     Task(IF title THEN "title" ELSE "send", "send", ca,
                          updatedMessages, Slice1(activeSession.messages),
                          prompt, image, <<>>, NoMsg, "none"),
                     IF title THEN <<"summarize">> ELSE <<"sendMessage">>)

\* handleSendMessage(prompt, imageFile) run by a closure holding chatSessions =
\* cs and activeChatId = ca.
handleSendMessage(cs, ca, prompt, image, confirm) ==
  LET command == CommandOf(prompt)
  IN CASE command = CmdNewChat ->
            LET res == handleNewChat(chatSessions, now)
            IN Outcome(res.sessions, res.active, isLoading, NoTask, <<>>)
       [] command = CmdDeleteChat -> cmdDeleteThisChat(cs, ca, confirm)
       [] command = CmdClearHistory -> cmdClearHistory(confirm)
       [] command = CmdHelp -> cmdHelp(cs, ca)
       [] OTHER -> startTurn(cs, ca, prompt, image)

\* The target lookup without the role test.
EditTarget_anyRole(messages, messageId) == FindMessage(messages, messageId)

\* findIndex(m => m.id === messageId) and the role test of handleEditMessage:
\* the 1-based index of the message to edit, 0 when the call returns at once.
EditTarget(messages, messageId) ==
  LET messageIndex == FindMessage(messages, messageId)
  IN IF messageIndex = 0 THEN 0
     ELSE IF messages[messageIndex].role # "user" THEN 0
     ELSE messageIndex

\* A truncation that also drops the first message.
TruncatedHistory_dropFirst(messages, messageIndex) == SubSeq(messages, 2, messageIndex - 1)

\* activeSession.messages.slice(0, messageIndex), messageIndex 1-based here.
TruncatedHistory(messages, messageIndex) == SubSeq(messages, 1, messageIndex - 1)

\* An edit in place, keeping the messages after the target.
NewMessagesForUi_keepTail(messages, messageIndex, newText) ==
  [messages EXCEPT ![messageIndex].text = newText]

\* [...truncatedHistory, { ...messages[messageIndex], text: newText }]
NewMessagesForUi(messages, messageIndex, newText) ==
  Append(TruncatedHistory(messages, messageIndex),
         [messages[messageIndex] EXCEPT !.text = newText])

\* handleEditMessage(messageId, newText), always run by the current render.
handleEditMessage(messageId, newText) ==
  LET idx == IF activeChatId = None THEN 0 ELSE FindSession(chatSessions, activeChatId)
      messageIndex == IF idx = 0 THEN 0 ELSE EditTarget(chatSessions[idx].messages, messageId)
  IN IF messageIndex = 0 THEN Unchanged
     ELSE LET activeSession == chatSessions[idx]
              newMessagesForUi == NewMessagesForUi(activeSession.messages, messageIndex, newText)
          IN Outcome(updateSessionMessages(chatSessions, activeChatId, newMessagesForUi, NoTitle),
                     activeChatId, TRUE,
                     Task("send", "edit", activeChatId, newMessagesForUi,
                          Slice1(TruncatedHistory(activeSession.messages, messageIndex)),
                          newText, FALSE, <<>>, NoMsg, "none"),
                     <<"sendMessage">>)

\* functionCall.args.prompt of the one function call a turn's response may
\* carry: a text proper to the turn, written as the number of user inputs
\* before the turn and whether the turn was spoken.
CallPrompt(op) == <<ToString(ops), IF op = "voice" THEN "spoken" ELSE "typed">>

\* Commit an outcome: the state setters, the save effect of the next render,
\* and the suspended rest of the handler.
Apply(out, op, arg) ==
  /\ out.task # NoTask => Len(tasks) < MaxTasks
  /\ Len(out.sessions) <= MaxSessions
  /\ Extra(out.sessions) <= MaxMessages
  /\ chatSessions' = out.sessions
  /\ activeChatId' = out.active
  /\ isLoading' = out.loading
  /\ SaveEffect(out.sessions)
  /\ tasks' = IF out.task = NoTask THEN tasks
             ELSE Append(tasks, out.task @@ [prompt |-> CallPrompt(op)])
  /\ last' = Last(op, arg, out.calls)

\* ---------------------------------------------------------------- inputs
HelpMe == <<"h","e","l","p"," ","m","e">>
Plan == <<"P","l","a","n">>

\* What the user may have typed when pressing Enter.
TypedInputs ==
  { [prompt |-> <<" ","H","e","L","P","\n">>, image |-> FALSE],
    [prompt |-> <<"N","e","w"," ","C","h","a","t"," ">>, image |-> FALSE],
    [prompt |-> <<"\t","d","e","l","e","t","e"," ","T","H","I","S"," ","c","h","a","t">>,
     image |-> FALSE],
    [prompt |-> <<"c","l","e","a","r"," ","H","i","s","t","o","r","y">>, image |-> FALSE],
    [prompt |-> HelpMe, image |-> FALSE],
    [prompt |-> <<" ">>, image |-> FALSE] }

\* WelcomeScreen's example prompts (one stands for the four).
WelcomePrompts == { Plan }

\* Transcripts a recognizer may report (before the handler trims them).
Transcripts ==
  { <<"H","e","l","p">>, <<"N","e","w"," ","c","h","a","t">>, CmdDeleteChat,
    <<"C","l","e","a","r"," ","h","i","s","t","o","r","y">>, HelpMe, <<" ">> }

\* What the edit box may hold when "Save & Submit" is pressed.
EditTexts == { <<" ","P","l","a","n">>, <<" ">> }

\* window.confirm is shown by the two destructive commands only.
Answers(prompt) ==
  IF CommandOf(prompt) \in {CmdDeleteChat, CmdClearHistory} THEN BOOLEAN ELSE {FALSE}

Responses ==
  [text : BOOLEAN, fn : {"none", "openApplication", "generateImage", "solveComplexTask"}]

Failures == {"quota", "other"}

Titles == { <<"Title">>, NoTitle }

\* The session the Chat component is rendered for (activeChat), 0 if none.
ActiveIdx == IF activeChatId = None THEN 0 ELSE FindSession(chatSessions, activeChatId)

\* ---------------------------------------------------------------- Chat inputs
\* Chat.handleSend(prompt?, imageFile) called by a render whose isLoading is
\* loading: the guard, then onSendMessage.
handleSend(loading, cs, ca, prompt, image, confirm) ==
  IF (Trim(prompt) = <<>> /\ ~image) \/ loading
  THEN Unchanged
  ELSE handleSendMessage(cs, ca, prompt, image, confirm)

\* Enter in the text box, or the send button.
TypedSendOn(in, confirm) ==
  /\ booted /\ ActiveIdx # 0 /\ UserInput
  /\ LET out == handleSend(isLoading, chatSessions, activeChatId, in.prompt, in.image, confirm)
     IN /\ Apply(out, "typed", <<in.prompt, confirm>>)
        /\ Rerender(out.sessions, out.active, out.loading)
        /\ TtsEffect(out.sessions, out.active, out.loading, chat.isTtsEnabled)
  /\ UNCHANGED <<now, booted, failedCalls, voiceVars>>

TypedSend == \E in \in TypedInputs : \E confirm \in Answers(in.prompt) : TypedSendOn(in, confirm)

\* WelcomeScreen.onPromptClick -> Chat.handleSend(prompt); the screen is shown
\* while the session holds at most the greeting.
WelcomeClickOn(p) ==
  /\ booted /\ ActiveIdx # 0 /\ UserInput
  /\ Len(chatSessions[ActiveIdx].messages) <= 1
  /\ LET out == handleSend(isLoading, chatSessions, activeChatId, p, FALSE, FALSE)
     IN /\ Apply(out, "welcome", <<p, FALSE>>)
        /\ Rerender(out.sessions, out.active, out.loading)
        /\ TtsEffect(out.sessions, out.active, out.loading, chat.isTtsEnabled)
  /\ UNCHANGED <<now, booted, failedCalls, voiceVars>>

WelcomeClick == \E p \in WelcomePrompts : WelcomeClickOn(p)

\* recognition.start() by the mic button or the auto-listen effect; both need
\* isLoading false.  The recognizer's onresult holds the onSendMessage of the
\* render that created it.
VoiceStart ==
  /\ booted /\ ActiveIdx # 0 /\ UserInput
  /\ ~isLoading
  /\ ~rec.on
  /\ rec' = [on |-> TRUE, sessions |-> chatSessions, active |-> activeChatId, age |-> 0]
  /\ NoRender
  /\ UNCHANGED <<chatSessions, activeChatId, isLoading, now, tasks, storage, booted, last, failedCalls, voiceVars>>

\* recognition.onresult: the trimmed transcript goes to onSendMessage unless empty.
onresult(cs, ca, transcript, confirm) ==
  LET finalTranscript == Trim(transcript)
  IN IF finalTranscript # <<>>
     THEN handleSendMessage(cs, ca, finalTranscript, FALSE, confirm)
     ELSE Unchanged

VoiceResultOn(tr, confirm) ==
  /\ rec.on
  /\ LET out == onresult(rec.sessions, rec.active, tr, confirm)
     IN /\ Apply(out, "voice", <<tr, confirm>>)
        /\ TtsEffect(out.sessions, out.active, out.loading, chat.isTtsEnabled)
  /\ rec' = NoRec
  /\ UNCHANGED <<now, booted, ops, failedCalls, voiceVars>>

VoiceResult == \E tr \in Transcripts : \E confirm \in Answers(tr) : VoiceResultOn(tr, confirm)

\* recognition.onend / onerror without a result
VoiceEnd ==
  /\ rec.on
  /\ rec' = NoRec
  /\ NoRender
  /\ UNCHANGED <<chatSessions, activeChatId, isLoading, now, tasks, storage, booted, ops, last, failedCalls, voiceVars>>

\* ChatMessage.handleSaveEdit: the guard, then onEditMessage(id, trimmed text).
handleSaveEdit(m, editedText) ==
  IF Trim(editedText) # <<>> /\ Trim(editedText) # m.text
  THEN handleEditMessage(m.id, Trim(editedText))
  ELSE Unchanged

\* "Save & Submit" on the user bubble at position j of the active session.
SaveEditOn(j, editedText) ==
  /\ booted /\ ActiveIdx # 0 /\ UserInput
  /\ j \in 1..Len(chatSessions[ActiveIdx].messages)
  /\ LET m == chatSessions[ActiveIdx].messages[j]
         out == handleSaveEdit(m, editedText)
     IN /\ m.role = "user"
        /\ Apply(out, "saveEdit", <<m.id, editedText>>)
        /\ Rerender(out.sessions, out.active, out.loading)
        /\ TtsEffect(out.sessions, out.active, out.loading, chat.isTtsEnabled)
  /\ UNCHANGED <<now, booted, failedCalls, voiceVars>>

SaveEdit == \E j \in 1..MaxMessages + 1, editedText \in EditTexts : SaveEditOn(j, editedText)

\* Ids an edit request may name: every message id in the collection, and one
\* that names no message.
AllMessageIds ==
  UNION { { chatSessions[i].messages[j].id : j \in 1..Len(chatSessions[i].messages) } :
          i \in 1..Len(chatSessions) }

EditIds == AllMessageIds \cup { <<"user", -2>> }

\* A user bubble of the active session: what the edit box is offered on.
IsUserBubble(messageId) ==
  /\ ActiveIdx # 0
  /\ \E j \in 1..Len(chatSessions[ActiveIdx].messages) :
       /\ chatSessions[ActiveIdx].messages[j].id = messageId
       /\ chatSessions[ActiveIdx].messages[j].role = "user"

\* onEditMessage(messageId, newText) for an id the edit box is not offered on:
\* a model message, a message of another session, or no message at all.
EditCallOn(messageId) ==
  /\ booted /\ UserInput
  /\ ~IsUserBubble(messageId)
  /\ LET out == handleEditMessage(messageId, Plan)
     IN /\ Apply(out, "edit", <<messageId, Plan>>)
        /\ Rerender(out.sessions, out.active, out.loading)
        /\ TtsEffect(out.sessions, out.active, out.loading, chat.isTtsEnabled)
  /\ UNCHANGED <<now, booted, failedCalls, voiceVars>>

EditCall == \E messageId \in EditIds : EditCallOn(messageId)

\* ---------------------------------------------------------------- responses
ErrorText(kind, failure) ==
  IF failure = "quota" THEN QuotaErrorText
  ELSE IF kind = "edit" THEN EditErrorText ELSE GenericErrorText

ThinkingMessage(fn, t, prompt) ==
  IF fn = "generateImage"
  THEN Msg(<<"thinking", t>>, "model", ThinkingImageText \o prompt, FALSE, FALSE, FALSE)
  ELSE IF fn = "solveComplexTask"
  THEN Msg(<<"thinking", t>>, "model", ThinkingTaskText \o prompt, FALSE, FALSE, FALSE)
  ELSE NoMsg

FunctionResult(fn, t, prompt) ==
  IF fn = "generateImage"
  THEN Msg(<<"gen-img", t>>, "model", ImageResultText \o prompt, FALSE, TRUE, FALSE)
  ELSE Msg(<<"complex", t>>, "model", ComplexResultText \o prompt, FALSE, FALSE, FALSE)

\* What handleApiResponse does up to its first await, in the order of its
\* statements: the commit of the text message (line 124), window.open (145),
\* the commit of the placeholder (158), the sub-call (162, 165).
Effects(response) ==
  (IF response.text THEN <<"text">> ELSE <<>>) \o
  (CASE response.fn = "openApplication" -> <<"open">>
     [] response.fn \in {"generateImage", "solveComplexTask"} ->
          <<"placeholder", response.fn>>
     [] OTHER -> <<>>)

\* handleApiResponse(response, currentMessages) up to its first await, run by
\* the closure of task tk.  Yields the committed collection and, when a
\* sub-call is awaited, the suspended rest.
handleApiResponse(tk, response, currentMessages) ==
  LET modelResponse == Msg(<<"model", now>>, "model", ReplyText, FALSE, FALSE, FALSE)
      updatedMessages == IF response.text THEN Append(currentMessages, modelResponse)
                         ELSE currentMessages
      afterText == IF response.text
                   THEN updateSessionMessages(chatSessions, tk.sid, updatedMessages, NoTitle)
                   ELSE chatSessions
      thinkingMessage == ThinkingMessage(response.fn, now, tk.prompt)
  IN IF thinkingMessage = NoMsg
     THEN [sessions |-> afterText, task |-> NoTask, calls |-> <<>>,
           effects |-> Effects(response)]
     ELSE [sessions |-> updateSessionMessages(afterText, tk.sid,
                           Append(updatedMessages, thinkingMessage), NoTitle),
           task |-> [tk EXCEPT !.pc = "sub", !.base = updatedMessages,
                               !.think = thinkingMessage, !.fn = response.fn],
           calls |-> <<response.fn>>,
           effects |-> Effects(response)]

Slots == 1..Len(tasks)

RemoveAt(s, i) == SubSeq(s, 1, i - 1) \o SubSeq(s, i + 1, Len(s))

\* A handler that returns without its finally block having run.
Finally_skipped(loading) == loading

\* finally { setIsLoading(false) } of handleSendMessage / handleEditMessage:
\* the busy flag after it, whatever it was.
Finally(loading) == FALSE

\* A completion's commit: the collection, the busy flag, the rest of the turn.
\* last.arg keeps what the continuation did, in order.
ResumeWith(i, sessions, loading, task, effects, calls) ==
  /\ Extra(sessions) <= MaxMessages
  /\ chatSessions' = sessions
  /\ isLoading' = loading
  /\ SaveEffect(sessions)
  /\ tasks' = IF task = NoTask THEN RemoveAt(tasks, i) ELSE [tasks EXCEPT ![i] = task]
  /\ last' = Last("resume", effects, calls)
  /\ Rerender(sessions, activeChatId, loading)
  /\ TtsEffect(sessions, activeChatId, loading, chat.isTtsEnabled)
  /\ UNCHANGED <<activeChatId, now, booted, ops, voiceVars>>

Resume(i, sessions, loading, task, calls) ==
  ResumeWith(i, sessions, loading, task, <<>>, calls)

\* summarize(prompt) resolves: the title commit, then startChat/sendMessage.
TitleDoneOn(i, newTitle) ==
  /\ i \in Slots
  /\ tasks[i].pc = "title"
  /\ Resume(i, updateSessionMessages(chatSessions, tasks[i].sid, tasks[i].msgs, newTitle),
            isLoading, [tasks[i] EXCEPT !.pc = "send"], <<"sendMessage">>)
  /\ UNCHANGED failedCalls

TitleDone == \E i \in 1..MaxTasks, newTitle \in Titles : TitleDoneOn(i, newTitle)

\* summarize(prompt) rejects: logged, then startChat/sendMessage.
TitleFailOn(i) ==
  /\ i \in Slots
  /\ tasks[i].pc = "title"
  /\ Resume(i, chatSessions, isLoading, [tasks[i] EXCEPT !.pc = "send"],
            <<"sendMessage">>)
  /\ UNCHANGED failedCalls

TitleFail == \E i \in 1..MaxTasks : TitleFailOn(i)

\* chat.sendMessage resolves: handleApiResponse, then finally unless it awaits.
SendDoneOn(i, response) ==
    /\ i \in Slots
    /\ tasks[i].pc = "send"
    /\ LET r == handleApiResponse(tasks[i], response, tasks[i].msgs)
       IN ResumeWith(i, r.sessions,
                     IF r.task = NoTask THEN Finally(isLoading) ELSE isLoading,
                     r.task, r.effects, r.calls)
    /\ UNCHANGED failedCalls

SendDone == \E i \in 1..MaxTasks, response \in Responses : SendDoneOn(i, response)

\* The catch block's list with the error message put in the place of the
\* turn's user message.
CatchMessages_dropUser(tk, failure, t) ==
  Append(SubSeq(tk.msgs, 1, Len(tk.msgs) - 1),
         Msg(<<"error", t>>, "model", ErrorText(tk.kind, failure), FALSE, FALSE, TRUE))

\* [...updatedMessages, errorMessage] of the catch block, updatedMessages
\* being the handler's own list (the user message appended, or the edited list).
CatchMessages(tk, failure, t) ==
  Append(tk.msgs,
         Msg(<<"error", t>>, "model", ErrorText(tk.kind, failure), FALSE, FALSE, TRUE))

\* The catch block of handleSendMessage / handleEditMessage, then finally.
Catch(i, failure) ==
  /\ Resume(i, updateSessionMessages(chatSessions, tasks[i].sid,
                  CatchMessages(tasks[i], failure, now), NoTitle),
            Finally(isLoading), NoTask, <<>>)
  /\ failedCalls' = IF tasks[i].pc = "sub" THEN failedCalls \cup {tasks[i].prompt}
                    ELSE failedCalls

\* fileToBase64 or chat.sendMessage rejects.
SendFail ==
  \E i \in Slots, failure \in Failures :
    /\ tasks[i].pc = "send"
    /\ Catch(i, failure)

\* finalMessages with the placeholder left in place next to the result.
FinalMessages_keepPlaceholder(tk, t) ==
  Append(Append(tk.base, tk.think), FunctionResult(tk.fn, t, tk.prompt))

\* finalMessages of handleApiResponse once the sub-call of task tk resolved:
\* [...updatedMessages, thinkingMessage] without the placeholder's id, then
\* the result.
FinalMessages(tk, t) ==
  Append(WithoutId(Append(tk.base, tk.think), tk.think.id),
         FunctionResult(tk.fn, t, tk.prompt))

\* complexResponse.text may be empty: the result message then has no text.
WithAnswer(M, fn, empty) ==
  IF fn = "solveComplexTask" /\ empty THEN [M EXCEPT ![Len(M)].text = <<>>] ELSE M

\* generateImage / generateComplexText resolves: the placeholder is replaced.
SubDoneOn(i, empty) ==
    /\ i \in Slots
    /\ tasks[i].pc = "sub"
    /\ empty => tasks[i].fn = "solveComplexTask"
    /\ Resume(i, updateSessionMessages(chatSessions, tasks[i].sid,
                    WithAnswer(FinalMessages(tasks[i], now), tasks[i].fn, empty), NoTitle),
              Finally(isLoading), NoTask, <<>>)
    /\ UNCHANGED failedCalls

SubDone == \E i \in 1..MaxTasks, empty \in BOOLEAN : SubDoneOn(i, empty)

\* generateImage / generateComplexText rejects: handleApiResponse throws.
SubFail ==
  \E i \in Slots, failure \in Failures :
    /\ tasks[i].pc = "sub"
    /\ Catch(i, failure)

Next ==
  \/ Boot \/ Tick
  \/ NewChatClick \/ SelectChat \/ DeleteChatClick
  \/ TypedSend \/ WelcomeClick
  \/ VoiceStart \/ VoiceResult \/ VoiceEnd
  \/ SaveEdit \/ EditCall
  \/ TitleDone \/ TitleFail \/ SendDone \/ SendFail \/ SubDone \/ SubFail

Spec == Init /\ [][Next]_vars

\* The speaker button of Chat: setIsTtsEnabled(!isTtsEnabled).
SpeakerClick ==
  /\ booted /\ ActiveIdx # 0 /\ UserInput
  /\ chat' = [chat EXCEPT !.isTtsEnabled = ~@]
  /\ TtsEffect(chatSessions, activeChatId, isLoading, ~chat.isTtsEnabled)
  /\ last' = Last("speaker", <<>>, <<>>)
  /\ UNCHANGED <<chatSessions, activeChatId, isLoading, now, tasks, rec, storage, booted,
                 failedCalls, isAutoListenEnabled, autoStart>>

SpeechNext == Next \/ SpeakerClick

\* The conversation with the speaker button.
SpeechInit == Init

SpeechSpec == SpeechInit /\ [][SpeechNext]_vars

\* ================================================================ properties
\* The steps that hand a prompt to App.handleSendMessage.  Each records its
\* prompt and the confirmation answer in last.arg.
SendOps == {"typed", "welcome", "voice"}

TypedStep(p, confirm) ==
  /\ ~isLoading /\ Trim(p) # <<>>
  /\ \E in \in TypedInputs : in.prompt = p /\ TypedSendOn(in, confirm)

WelcomeStep(p) == ~isLoading /\ p \in WelcomePrompts /\ WelcomeClickOn(p)

VoiceStep(p, confirm) == Trim(p) # <<>> /\ p \in Transcripts /\ VoiceResultOn(p, confirm)

\* The command vocabulary, matched on the trimmed, case-folded prompt.
FoldedPrompt(p) == ToLowerCase(Trim(p))
IsCommand(p) == FoldedPrompt(p) \in Commands
IsDestructive(p) == FoldedPrompt(p) \in {CmdDeleteChat, CmdClearHistory}

MessagesOf(S, id) == IF FindSession(S, id) = 0 THEN <<>> ELSE S[FindSession(S, id)].messages

UserCount(S) ==
  Cardinality({ <<i, j>> \in (1..Len(S)) \X (1..MaxMessages + 2) :
                  j <= Len(S[i].messages) /\ S[i].messages[j].role = "user" })

\* ---------------------------------------------------------------- C1
\* C1: after any sequence of operations every session of the collection has a
\* non-empty message sequence whose first message has role model and is the
\* seed greeting.
C1_SeedFirst ==
  \A i \in 1..Len(chatSessions) :
    /\ Len(chatSessions[i].messages) >= 1
    /\ chatSessions[i].messages[1].role = "model"
    /\ chatSessions[i].messages[1].text = GreetingText

\* An edit of the first user message has just truncated a session to the
\* greeting and the edited message, next to a second session.
C1_Witness ==
  /\ last.op = "saveEdit" /\ last.calls # <<>>
  /\ Len(chatSessions) = 2
  /\ Len(MessagesOf(chatSessions, activeChatId)) = 2
  /\ C1_SeedFirst

\* ---------------------------------------------------------------- C2
\* C2: in every state after boot, if the collection is non-empty then the
\* active id is the id of a session of the collection.
C2_ActiveExists ==
  (booted /\ Len(chatSessions) > 0) =>
     (activeChatId # None /\ FindSession(chatSessions, activeChatId) # 0)

\* A session with a turn in flight has just been deleted and another remains.
C2_Witness ==
  /\ last.op = "delete"
  /\ Len(chatSessions) > 0
  /\ FindSession(chatSessions, last.arg) = 0
  /\ \E i \in 1..Len(tasks) : tasks[i].sid = last.arg
  /\ FindSession(chatSessions, activeChatId) # 0

\* ---------------------------------------------------------------- C3
\* A step that deletes the only session of the collection: its trash button,
\* a confirmed `delete this chat`, or a confirmed `clear history`.
DeleteLastStep ==
  /\ Len(chatSessions) = 1
  /\ \/ DeleteChatClickOn(1)
     \/ /\ last'.op \in SendOps
        /\ IsDestructive(last'.arg[1])
        /\ TypedStep(last'.arg[1], TRUE) \/ VoiceStep(last'.arg[1], TRUE)

FreshOnly ==
  /\ Len(chatSessions) = 1
  /\ activeChatId = chatSessions[1].id
  /\ Len(chatSessions[1].messages) = 1
  /\ chatSessions[1].messages[1].role = "model"
  /\ chatSessions[1].messages[1].text = GreetingText

\* C3: deleting the last remaining session (trash button, confirmed `delete
\* this chat`, confirmed `clear history`) always leaves exactly one session,
\* which is active and holds exactly the seed greeting.
C3_DeleteLastLeavesFresh == [][DeleteLastStep => FreshOnly']_vars

\* ---------------------------------------------------------------- C4
\* A send on any input path: typed, welcome prompt, voice transcript.
SendStep ==
  \/ \E in \in TypedInputs, confirm \in BOOLEAN : TypedSendOn(in, confirm)
  \/ \E p \in WelcomePrompts : WelcomeClickOn(p)
  \/ \E p \in Transcripts, confirm \in BOOLEAN : VoiceResultOn(p, confirm)

\* C4: a send while the busy flag is true is a no-op on every input path: no
\* user message is appended and no backend call is issued.
C4_BusySendNoOp ==
  [][(isLoading /\ SendStep) =>
       /\ last'.calls = <<>>
       /\ tasks' = tasks
       /\ UserCount(chatSessions') <= UserCount(chatSessions)]_vars

\* ---------------------------------------------------------------- C5
\* C5: at most one turn is in flight for a session at any time.
C5_OneTurnPerSession ==
  \A i, j \in 1..Len(tasks) : i # j => tasks[i].sid # tasks[j].sid

\* ---------------------------------------------------------------- C6
\* "Save & Submit" on bubble j passes ChatMessage's guard and calls
\* onEditMessage(id, trimmed text).
EditInvoked(j, editedText) ==
  /\ SaveEditOn(j, editedText)
  /\ Trim(editedText) # <<>>
  /\ Trim(editedText) # chatSessions[ActiveIdx].messages[j].text

\* What the claim promises of an edit of the message at 1-based index idx
\* (the claim's i + 1) of old: idx messages, the prefix kept, the last one
\* the target with its text replaced.
EditedTo(old, idx, newText, new) ==
  /\ Len(new) = idx
  /\ \A k \in 1..(idx - 1) : new[k] = old[k]
  /\ new[idx].id = old[idx].id
  /\ new[idx].role = old[idx].role
  /\ new[idx].text = newText
  /\ new[idx] = [old[idx] EXCEPT !.text = newText]

\* C6: edit(messageId, newText) on the user message at index i of the active
\* session commits exactly i + 1 messages: the original prefix unchanged, then
\* the target with its text replaced (same id); everything after is discarded.
C6_EditTruncates ==
  [][\A j \in 1..MaxMessages + 1 :
       (last'.op = "saveEdit" /\ EditInvoked(j, last'.arg[2])) =>
         LET old == chatSessions[ActiveIdx].messages
             idx == FindMessage(old, old[j].id)
         IN /\ activeChatId' = activeChatId
            /\ EditedTo(old, idx, Trim(last'.arg[2]),
                        MessagesOf(chatSessions', activeChatId))]_vars

\* An edit has just cut the active session down to the greeting and the
\* edited user message while the earlier turn's backend call is still pending
\* on the longer sequence.
C6_Witness ==
  /\ last.op = "saveEdit" /\ last.calls = <<"sendMessage">>
  /\ Len(MessagesOf(chatSessions, activeChatId)) = 2
  /\ MessagesOf(chatSessions, activeChatId)[2].id = last.arg[1]
  /\ MessagesOf(chatSessions, activeChatId)[2].text = Trim(last.arg[2])
  /\ isLoading

\* ---------------------------------------------------------------- C7
\* C7: edit(messageId, newText) whose target is not in the active session, or
\* has role model, is a no-op: collection, active id and busy flag unchanged,
\* no backend call.
C7_EditNoTarget ==
  [][(\E messageId \in EditIds : EditCallOn(messageId)) =>
       /\ UNCHANGED <<chatSessions, activeChatId, isLoading, tasks, storage>>
       /\ last'.calls = <<>>]_vars

\* An edit has just been requested on a model message of the active session,
\* which also holds a user message.
C7_Witness ==
  /\ last.op = "edit"
  /\ \E j \in 1..Len(MessagesOf(chatSessions, activeChatId)) :
       /\ MessagesOf(chatSessions, activeChatId)[j].id = last.arg[1]
       /\ MessagesOf(chatSessions, activeChatId)[j].role = "model"
  /\ UserCount(chatSessions) > 0

\* ---------------------------------------------------------------- C8
\* The help command handed to handleSendMessage.
HelpStep ==
  /\ last'.op \in SendOps
  /\ FoldedPrompt(last'.arg[1]) = CmdHelp
  /\ TypedStep(last'.arg[1], FALSE) \/ VoiceStep(last'.arg[1], FALSE)

\* The session the running handler takes as active: the recognizer's handler
\* on a voice step, the current render's otherwise.
HandlerActive == IF last'.op = "voice" THEN rec.active ELSE activeChatId

\* C8: the help command in any casing and with any surrounding whitespace
\* appends exactly one model message to the active session, keeps all prior
\* messages, issues no backend call and does not set the busy flag.
C8_HelpAppendsOne ==
  [][(HelpStep /\ FindSession(chatSessions, HandlerActive) # 0) =>
       LET old == MessagesOf(chatSessions, HandlerActive)
           new == MessagesOf(chatSessions', HandlerActive)
       IN /\ Len(new) = Len(old) + 1
          /\ SubSeq(new, 1, Len(old)) = old
          /\ new[Len(new)].role = "model"
          /\ last'.calls = <<>>
          /\ tasks' = tasks
          /\ isLoading' = isLoading]_vars

\* ---------------------------------------------------------------- C9
\* No session holds a user message whose text is the prompt p.
NoUserMessageCarrying(S, p) ==
  \A i \in 1..Len(S) : \A j \in 1..Len(S[i].messages) :
    S[i].messages[j].role = "user" => S[i].messages[j].text \notin {p, Trim(p), FoldedPrompt(p)}

\* A turn has been started by this step: user message committed by a new
\* suspended call, busy set, backend call issued.
TurnStarted ==
  /\ isLoading'
  /\ last'.calls # <<>>
  /\ Len(tasks') = Len(tasks) + 1
  /\ tasks'[Len(tasks')].msgs[Len(tasks'[Len(tasks')].msgs)].role = "user"

\* C9: a prompt whose trimmed, case-folded text is a command runs only the
\* session operation: no backend call, no user message carrying the command
\* text, busy flag as it was; any other prompt starts a normal turn.
C9_CommandsOnly ==
  [][(/\ last'.op \in SendOps
      /\ \/ TypedStep(last'.arg[1], last'.arg[2])
         \/ WelcomeStep(last'.arg[1])
         \/ VoiceStep(last'.arg[1], last'.arg[2])) =>
       IF IsCommand(last'.arg[1])
       THEN /\ last'.calls = <<>>
            /\ tasks' = tasks
            /\ isLoading' = isLoading
            /\ NoUserMessageCarrying(chatSessions', last'.arg[1])
       ELSE TurnStarted]_vars

\* A mixed-case, padded `new chat` has just been typed in a session holding a
\* user message: a second session exists, nothing is busy, no call went out.
C9_Witness ==
  /\ last.op = "typed"
  /\ FoldedPrompt(last.arg[1]) = CmdNewChat /\ last.arg[1] # CmdNewChat
  /\ last.calls = <<>>
  /\ Len(chatSessions) = 2
  /\ UserCount(chatSessions) > 0
  /\ ~isLoading

\* ---------------------------------------------------------------- C10
\* C10: a destructive command whose confirmation is declined leaves the
\* collection, every session's messages and the active id unchanged.
C10_DeclinedKeeps ==
  [][(/\ last'.op \in SendOps
      /\ IsDestructive(last'.arg[1])
      /\ TypedStep(last'.arg[1], FALSE) \/ VoiceStep(last'.arg[1], FALSE)) =>
       UNCHANGED <<chatSessions, activeChatId, storage>>]_vars

\* `clear history` has just been spoken and declined with two sessions present.
C10_Witness ==
  /\ last.op = "voice"
  /\ FoldedPrompt(last.arg[1]) = CmdClearHistory
  /\ last.arg[2] = FALSE
  /\ Len(chatSessions) = 2
  /\ UserCount(chatSessions) > 0

\* ---------------------------------------------------------------- C11
\* The prompts a function call may carry.
CallPrompts ==
  { <<ToString(k), how>> : k \in 0..MaxOps, how \in {"spoken", "typed"} }

IsPlaceholderOf(m, prompt) ==
  m.text \in {ThinkingImageText \o prompt, ThinkingTaskText \o prompt}

IsResultOf(m, prompt) ==
  m.text \in {ImageResultText \o prompt, ComplexResultText \o prompt}

HoldsPlaceholder(M, prompt) == \E j \in 1..Len(M) : IsPlaceholderOf(M[j], prompt)

HoldsResult(M, prompt) == \E j \in 1..Len(M) : IsResultOf(M[j], prompt)

\* C11: no committed message list holds both the thinking placeholder of a
\* generateImage / solveComplexTask call and the result message of that call.
C11_PlaceholderOrResult ==
  \A i \in 1..Len(chatSessions), prompt \in CallPrompts :
    ~(/\ HoldsPlaceholder(chatSessions[i].messages, prompt)
      /\ HoldsResult(chatSessions[i].messages, prompt))

\* A sub-call has just resolved: its result is in the session's list, after a
\* text message of the same response.
C11_Witness ==
  /\ last.op = "resume"
  /\ \E i \in 1..Len(chatSessions), prompt \in CallPrompts :
       /\ HoldsResult(chatSessions[i].messages, prompt)
       /\ \E j \in 1..Len(chatSessions[i].messages) :
            chatSessions[i].messages[j].text = ReplyText

\* ---------------------------------------------------------------- C12
\* The sub-call of task i rejects.
SubFailStep(i, failure) ==
  /\ i \in Slots
  /\ tasks[i].pc = "sub"
  /\ Catch(i, failure)

ErrorCount(M) == Cardinality({ j \in 1..Len(M) : M[j].isError })

\* The failure of task tk is reported in new like a top-level send failure:
\* the placeholder gone, one more error-flagged model message, at the end,
\* with the text a failed send gets.
ReportedLikeSendFailure(tk, failure, new) ==
  /\ ~HoldsPlaceholder(new, tk.prompt)
  /\ ErrorCount(new) = ErrorCount(tk.msgs) + 1
  /\ new[Len(new)].isError /\ new[Len(new)].role = "model"
  /\ new[Len(new)].text = (IF failure = "quota" THEN QuotaErrorText
                           ELSE IF tk.kind = "edit" THEN EditErrorText
                           ELSE GenericErrorText)

\* The commit of a failed sub-call removes the placeholder and reports the
\* failure by a single error-flagged model message.
FailureCommitReported ==
  [][\A i \in 1..MaxTasks, failure \in Failures :
       (SubFailStep(i, failure) /\ FindSession(chatSessions, tasks[i].sid) # 0) =>
         ReportedLikeSendFailure(tasks[i], failure,
                                 MessagesOf(chatSessions', tasks[i].sid))]_vars

\* C12: if the sub-call fails the placeholder is removed from the committed
\* list and never left stuck once the turn is over: no committed list holds
\* the placeholder of a sub-call that has failed.
C12_PlaceholderNeverStuck ==
  \A i \in 1..Len(chatSessions), prompt \in failedCalls :
    ~HoldsPlaceholder(chatSessions[i].messages, prompt)

\* ---------------------------------------------------------------- C23
\* The backend call of task i fails: fileToBase64 or chat.sendMessage rejects.
SendFailStep(i, failure) ==
  /\ i \in Slots
  /\ tasks[i].pc = "send"
  /\ Catch(i, failure)

\* The list new ends with the user message of turn tk and, after it, one
\* error-flagged model message carrying the quota explanation for a quota
\* failure and the generic failure text otherwise; nothing else of the turn's
\* list has changed.
FailureAppended(tk, failure, new) ==
  /\ Len(new) = Len(tk.msgs) + 1
  /\ SubSeq(new, 1, Len(tk.msgs)) = tk.msgs
  /\ new[Len(new) - 1].role = "user"
  /\ new[Len(new) - 1].text = tk.message
  /\ new[Len(new)].role = "model" /\ new[Len(new)].isError
  /\ ErrorCount(new) = ErrorCount(tk.msgs) + 1
  /\ new[Len(new)].text = (IF failure = "quota" THEN QuotaErrorText
                           ELSE IF tk.kind = "edit" THEN EditErrorText
                           ELSE GenericErrorText)

\* C23: when the backend call of a send or of an edit-and-resend fails,
\* exactly one error-flagged model message is appended after the turn's user
\* message, which is kept; its text is the quota explanation when the error
\* carries the quota-exhaustion status and the generic failure text otherwise.
C23_SendFailureAppended ==
  [][\A i \in 1..MaxTasks, failure \in Failures :
       (SendFailStep(i, failure) /\ FindSession(chatSessions, tasks[i].sid) # 0) =>
         FailureAppended(tasks[i], failure, MessagesOf(chatSessions', tasks[i].sid))]_vars

\* A turn on the prompt Plan has just failed on quota: the shown session ends
\* with the user message and the quota explanation.
C23_Witness ==
  /\ last.op = "resume" /\ ~isLoading /\ tasks = <<>>
  /\ LET M == MessagesOf(chatSessions, activeChatId)
     IN /\ Len(M) >= 3
        /\ M[Len(M)].isError /\ M[Len(M)].text = QuotaErrorText
        /\ M[Len(M) - 1].role = "user" /\ M[Len(M) - 1].text = Plan

\* ---------------------------------------------------------------- C24
\* Every backend call settles: summarize, chat.sendMessage (or fileToBase64)
\* and the sub-call each resolve or reject; a started recognition ends.
MaxTurnOps == 2

\* A first visit (nothing stored) on which MaxTurnOps user inputs follow.
TurnInit ==
  /\ chatSessions = <<>>
  /\ activeChatId = None
  /\ isLoading = FALSE
  /\ now = 0
  /\ tasks = <<>>
  /\ rec = NoRec
  /\ storage = NoRecord
  /\ booted = FALSE
  /\ ops = MaxOps - MaxTurnOps
  /\ last = Last("init", <<>>, <<>>)
  /\ failedCalls = {}
  /\ isAutoListenEnabled = TRUE
  /\ chat = Mount(TRUE, "granted")
  /\ autoStart = TRUE
  /\ prevIsLoading = Undefined
  /\ spoken = NoMsg

TurnFairSpec ==
  /\ TurnInit /\ [][Next]_vars
  /\ WF_vars(TitleDone \/ TitleFail)
  /\ WF_vars(SendDone \/ SendFail)
  /\ WF_vars(SubDone \/ SubFail)
  /\ WF_vars(VoiceEnd)

\* Some turn is between its start and its finally block.
TurnsInFlight == tasks # <<>>

\* Some turn awaits the call of the given stage: summarize ("title"),
\* fileToBase64 / chat.sendMessage ("send"), generateImage /
\* generateComplexText ("sub").
Awaiting(stage) == \E i \in Slots : tasks[i].pc = stage

\* Each backend call eventually resolves or rejects.  (The cap MaxMessages
\* keeps a completion out of the model when its commit would exceed it; a run
\* in which a call is kept waiting for ever is not one the claim speaks of.)
CallsSettle ==
  /\ []<>~Awaiting("title")
  /\ []<>~Awaiting("send")
  /\ []<>~Awaiting("sub")

\* C24: every turn that enters Sending returns to Idle: provided each backend
\* call of the turn resolves or rejects, the turn reaches its finally block
\* and the busy flag is false again, whether the turn succeeds, its send
\* fails or its sub-call fails, for a send and for an edit-and-resend: a
\* raised busy flag or a turn in flight leads to a state with no turn in
\* flight and the flag false.
C24_TurnsReturnToIdle ==
  CallsSettle => ((isLoading \/ TurnsInFlight) ~> (~TurnsInFlight /\ ~isLoading))

\* A turn whose sub-call was rejected has gone through the catch block and
\* finally: no turn is in flight, the busy flag is false, the error is shown.
C24_Witness ==
  /\ last.op = "resume" /\ ~isLoading /\ ~TurnsInFlight
  /\ failedCalls # {}
  /\ LET M == MessagesOf(chatSessions, activeChatId)
     IN M # <<>> /\ M[Len(M)].isError

\* ---------------------------------------------------------------- C25
\* The title of session id in collection S.
TitleOf(S, id) == IF FindSession(S, id) = 0 THEN NoTitle ELSE S[FindSession(S, id)].title

\* The session of the turn this step started.
StartedIn == tasks'[Len(tasks')].sid

\* The step starts a session's first user turn: a send in a session that
\* held exactly one message, the greeting, before the user message.
FirstTurnStarted ==
  /\ TurnStarted /\ last'.op \in SendOps
  /\ Len(MessagesOf(chatSessions, StartedIn)) = 1

\* The step issued the given backend call.
Issued(call) == \E k \in 1..Len(last'.calls) : last'.calls[k] = call

\* A title request fires on first user turns and on no other turn.
TitleRequestOnFirstTurnOnly ==
  TurnStarted => (Issued("summarize") <=> FirstTurnStarted)

\* The summary arriving sets the title and leaves the messages as they are.
TitleSuccessSetsTitle ==
  \A i \in 1..MaxTasks, newTitle \in Titles \ {NoTitle} :
    (TitleDoneOn(i, newTitle) /\ FindSession(chatSessions, tasks[i].sid) # 0) =>
       /\ TitleOf(chatSessions', tasks[i].sid) = newTitle
       /\ MessagesOf(chatSessions', tasks[i].sid) = MessagesOf(chatSessions, tasks[i].sid)

\* The summary failing changes neither the title nor the messages.
TitleFailureChangesNothing ==
  \A i \in 1..MaxTasks :
    TitleFailOn(i) => chatSessions' = chatSessions

\* C25: on a session's first user turn a title request fires; on its success
\* the session title becomes the summarized value, on its failure the title
\* is unchanged, in both cases the session's messages are what they would be
\* without the title call; no title request fires on later turns.
C25_TitleOnFirstTurn ==
  [][/\ TitleRequestOnFirstTurnOnly
     /\ TitleSuccessSetsTitle
     /\ TitleFailureChangesNothing]_vars

\* ---------------------------------------------------------------- C26
\* C26: title generation does not block the main send flow: the step that
\* starts a turn issues the turn's backend send, whether or not it also
\* requests a title, so that the send never waits for summarize to settle.
C26_SendNotBehindTitle ==
  [][(TurnStarted /\ last'.op \in SendOps) => Issued("sendMessage")]_vars

\* ---------------------------------------------------------------- C27
\* The step is the mount.
BootStep == ~booted /\ booted'

\* The collection is one session titled "New Chat", active, holding only the
\* greeting.
FreshSingle(S, active) ==
  /\ Len(S) = 1
  /\ S[1].title = NewChatTitle
  /\ active = S[1].id
  /\ Len(S[1].messages) = 1
  /\ S[1].messages[1].role = "model"
  /\ S[1].messages[1].text = GreetingText
  /\ ~S[1].messages[1].isError

\* C27: boot always reaches a usable state: with no stored record, with a
\* stored empty collection, or with a record that fails to deserialize, the
\* collection after boot is exactly one session, titled "New Chat", active,
\* whose only message is the fixed greeting.
C27_BootUsable ==
  [][(BootStep /\ storage \in {NoRecord, CorruptRecord, JsonRecord(<<>>)}) =>
       FreshSingle(chatSessions', activeChatId')]_vars

\* Booted on a stored empty collection: one fresh session, stored again.
C27_Witness ==
  /\ booted /\ last.op = "boot" /\ last.arg = JsonRecord(<<>>)
  /\ FreshSingle(chatSessions, activeChatId)
  /\ storage = Save(chatSessions)

\* ---------------------------------------------------------------- C29
\* C29: within every session the message ids of the committed list are
\* pairwise distinct, however quickly the messages were created one after
\* another (repeated commands, placeholder and result of one turn, turns
\* that start without the clock advancing).
C29_MessageIdsDistinct ==
  \A i \in 1..Len(chatSessions) :
    \A j, k \in 1..Len(chatSessions[i].messages) :
      j # k => chatSessions[i].messages[j].id # chatSessions[i].messages[k].id

\* ---------------------------------------------------------------- C30
\* Some turn of the shown session is in flight.
ActiveTurnInFlight == \E i \in Slots : tasks[i].sid = activeChatId

\* The busy flag Chat is given holds only while a turn of the session it
\* shows is in flight.
BusyOnlyForOwnTurn == (isLoading /\ ActiveIdx # 0) => ActiveTurnInFlight

\* The user sends text that is no command (typed, or a welcome prompt) in the
\* shown session.
PlainSendStep ==
  /\ last'.op \in {"typed", "welcome"}
  /\ Trim(last'.arg[1]) # <<>> /\ ~IsCommand(last'.arg[1])
  /\ \/ TypedSendOn([prompt |-> last'.arg[1], image |-> FALSE], last'.arg[2])
     \/ WelcomeClickOn(last'.arg[1])

\* C30: the busy flag is scoped to the session whose turn is in flight: while
\* a turn of session A is in flight and another session B is selected, B is
\* not reported busy, and a send in B starts its turn.
C30_BusyScopedToSession ==
  [][/\ BusyOnlyForOwnTurn'
     /\ (PlainSendStep /\ ~ActiveTurnInFlight) => TurnStarted]_vars

\* ---------------------------------------------------------------- C21
\* The message at the end of the list Chat shows: the active session's last.
LastShown(S, id) ==
  IF id = None \/ FindSession(S, id) = 0 THEN NoMsg
  ELSE LET M == S[FindSession(S, id)].messages
       IN IF M = <<>> THEN NoMsg ELSE M[Len(M)]

\* A non-error model message with non-empty text.
Speakable(m) ==
  m # NoMsg /\ m.role = "model" /\ m.text # <<>> /\ ~m.isError

\* C21: a text-to-speech request is made exactly in the steps in which the
\* busy flag goes from true to false while the most recent message is a
\* non-error model message with non-empty text and speech output is enabled;
\* no other step makes one (a command, an error reply, a later change of the
\* list or of the switch, a turn ending with the switch off).
C21_SpokenOnBusyFall ==
  [][(spoken' # NoMsg) <=>
       (/\ isLoading /\ ~isLoading'
        /\ chat'.isTtsEnabled
        /\ Speakable(LastShown(chatSessions', activeChatId')))]_vars

\* A turn has just ended with a reply that is handed to text-to-speech, in a
\* session that holds a help message, which was not spoken.
C21_Witness ==
  /\ spoken # NoMsg /\ spoken.text = ReplyText
  /\ spoken = LastShown(chatSessions, activeChatId)
  /\ last.op = "resume" /\ ~isLoading
  /\ chat.isTtsEnabled
  /\ \E j \in 1..Len(MessagesOf(chatSessions, activeChatId)) :
       MessagesOf(chatSessions, activeChatId)[j].text = HelpText

\* ================================================================ voice
\* Chat's voice input and output, on their own: the conversation is left as
\* it is, a turn is known only by the busy flag it sets and clears.
mainFrame ==
  UNCHANGED <<chatSessions, activeChatId, now, tasks, rec, storage, booted, last, failedCalls,
              prevIsLoading, spoken>>

\* The step is the platform's or the backend's, not the user's.
NoInput == UNCHANGED ops

\* The setup effect run again with no stop() in its cleanup.
Resetup_noCleanup(c) ==
  IF c.recognition = NoRecognition
  THEN [c EXCEPT !.micError = UnsupportedText, !.micPermission = "denied",
                 !.queryPending = TRUE]
  ELSE [c EXCEPT !.replaced = IF c.recognition.st = "idle" THEN @
                              ELSE @ \cup {c.recognition},
                 !.recognition = NewRecognition,
                 !.queryPending = TRUE]

\* App re-rendered: onSendMessage is a new function, so the setup effect is
\* cleaned up (stop() on the recognizer of the last render) and run again (a
\* new permission query, a new recognizer; without the API the error and the
\* denied permission are set again).
Resetup(c) ==
  IF c.recognition = NoRecognition
  THEN [c EXCEPT !.micError = UnsupportedText, !.micPermission = "denied",
                 !.queryPending = TRUE]
  ELSE [c EXCEPT !.replaced = IF c.recognition.st = "idle" THEN @
                              ELSE @ \cup {stop(c.recognition)},
                 !.recognition = NewRecognition,
                 !.queryPending = TRUE]

\* The auto-listen drop of one condition: playback is not looked at.
ShouldListen_deafToPlayback(c, loading, auto) ==
  /\ auto /\ ~loading /\ ~c.isListening /\ ~c.userManuallyStopped
  /\ c.micError = NoMicError

\* The condition of the auto-listen effect.
ShouldListen(c, loading, auto) ==
  /\ auto /\ ~loading /\ ~c.isListening /\ ~c.userManuallyStopped
  /\ ~c.isTtsPlaying /\ c.micError = NoMicError

\* The auto-listen effect: start() under the condition, InvalidStateError
\* swallowed; stop() when the switch is off while listening.
AutoListen(c, loading, auto) ==
  LET c1 == IF ShouldListen(c, loading, auto) /\ CanStart(c.recognition)
            THEN [c EXCEPT !.recognition = start(@, "auto")]
            ELSE c
  IN IF ~auto /\ c1.isListening
     THEN [c1 EXCEPT !.recognition = stop(@)]
     ELSE c1

\* One of the effect's dependencies differs from the last render.
DepsChanged(c, loading, auto, messagesChanged) ==
  \/ messagesChanged
  \/ auto # isAutoListenEnabled
  \/ loading # isLoading
  \/ c.isListening # chat.isListening
  \/ c.userManuallyStopped # chat.userManuallyStopped
  \/ c.isTtsPlaying # chat.isTtsPlaying
  \/ c.micError # chat.micError

\* A handler has run and left Chat's state as c, the busy flag as loading and
\* the switch as auto: the next render's effects run, the setup effect first
\* where App re-rendered.
Settle(c, loading, auto, appRender, messagesChanged, user) ==
  LET c1 == IF appRender THEN Resetup(c) ELSE c
      ran == DepsChanged(c1, loading, auto, messagesChanged)
      c2 == IF ran THEN AutoListen(c1, loading, auto) ELSE c1
  IN /\ Cardinality(c2.replaced) <= MaxReplaced
     /\ chat' = c2
     /\ isLoading' = loading
     /\ isAutoListenEnabled' = auto
     /\ autoStart' = (ran /\ ShouldListen(c1, loading, auto)
                          /\ c1.recognition # NoRecognition)
     /\ mainFrame
     /\ (user /\ UserInput) \/ (~user /\ NoInput)

VoiceInit ==
  /\ chatSessions = <<>>
  /\ activeChatId = None
  /\ isLoading = FALSE
  /\ now = 0
  /\ tasks = <<>>
  /\ rec = NoRec
  /\ storage = Save(<<>>)
  /\ booted = FALSE
  /\ ops = 0
  /\ last = Last("init", <<>>, <<>>)
  /\ failedCalls = {}
  /\ isAutoListenEnabled = TRUE
  /\ \E supported \in BOOLEAN, permission \in PermissionStates :
       chat = Mount(supported, permission)
  /\ autoStart = (chat.recognition # NoRecognition)
  /\ prevIsLoading = Undefined
  /\ spoken = NoMsg

\* checkMicPermission: navigator.permissions.query resolves, or it rejects or
\* navigator.permissions is missing.
QueryResult ==
  /\ chat.queryPending
  /\ \E resolved \in BOOLEAN :
       LET c == IF resolved
                THEN [chat EXCEPT !.queryPending = FALSE, !.watched = TRUE,
                                  !.micPermission = chat.permission,
                                  !.micError = IF chat.permission = "denied"
                                               THEN DeniedSettingsText ELSE @]
                ELSE [chat EXCEPT !.queryPending = FALSE]
       IN Settle(c, isLoading, isAutoListenEnabled, FALSE, FALSE, FALSE)

\* The user changes the site's microphone permission; permissionStatus.onchange
\* runs if a query has set it.
PermissionChange ==
  \E p \in PermissionStates \ {chat.permission} :
    LET c == IF chat.watched
             THEN [chat EXCEPT !.permission = p, !.micPermission = p,
                               !.micError = IF p = "denied" THEN DeniedSettingsText
                                            ELSE NoMicError]
             ELSE [chat EXCEPT !.permission = p]
    IN Settle(c, isLoading, isAutoListenEnabled, FALSE, FALSE, TRUE)

\* The recognizers that may deliver events: the one of this render (TRUE) and
\* the replaced ones.
Recognizers == {<<TRUE, chat.recognition>>} \cup {<<FALSE, r>> : r \in chat.replaced}

\* Recognizer r moves to state st; an ended one is idle again, or forgotten if
\* it was replaced.
Put(c, cur, r, st) ==
  IF cur
  THEN [c EXCEPT !.recognition = IF st = "idle" THEN NewRecognition ELSE [r EXCEPT !.st = st]]
  ELSE [c EXCEPT !.replaced = (@ \ {r}) \cup (IF st = "idle" THEN {} ELSE {[r EXCEPT !.st = st]})]

\* recognition.onstart; after a stop() that came first, only the end is due.
OnStartOn(x) ==
    /\ x[2].st \in {"starting", "halting"}
    /\ chat.permission # "denied"
    /\ LET c == [Put(chat, x[1], x[2], IF x[2].st = "starting" THEN "started" ELSE "ending")
                   EXCEPT !.isListening = TRUE, !.micError = NoMicError]
       IN Settle(c, isLoading, isAutoListenEnabled, FALSE, FALSE, FALSE)

OnStart == \E x \in Recognizers : OnStartOn(x)

\* What App.handleSendMessage does with a prompt: starts a turn, answers a
\* local command, or returns at once.
SendKinds == {"turn", "command", "ignored"}

\* onSendMessage(prompt) followed by the caller's setUserManuallyStopped(false).
Sent(c, kind, user) ==
  LET c1 == [c EXCEPT !.userManuallyStopped = FALSE,
                      !.turns = IF kind = "turn" THEN @ + 1 ELSE @]
  IN /\ c1.turns <= MaxTurns
     /\ Settle(c1, IF kind = "turn" THEN TRUE ELSE isLoading, isAutoListenEnabled,
               kind # "ignored", kind # "ignored", user)

\* recognition.onresult, the end event following before the next render or not.
OnResultOn(x, kind, thenEnd) ==
    /\ x[2].st \in {"started", "stopping"}
    /\ LET c0 == Put(chat, x[1], x[2], IF thenEnd THEN "idle" ELSE "ending")
           c == IF thenEnd THEN [c0 EXCEPT !.isListening = FALSE] ELSE c0
       IN IF kind = "empty"
          THEN Settle(c, isLoading, isAutoListenEnabled, FALSE, FALSE, FALSE)
          ELSE Sent(c, kind, FALSE)

OnResult ==
  \E x \in Recognizers, kind \in SendKinds \cup {"empty"}, thenEnd \in BOOLEAN :
    OnResultOn(x, kind, thenEnd)

\* The handler of recognition.onerror.
onerror(c, error) ==
  [c EXCEPT !.micError = IF error = "not-allowed" THEN DeniedAccessText
                         ELSE IF error \notin {"no-speech", "network", "aborted"}
                         THEN RecognitionErrorText
                         ELSE @,
            !.micPermission = IF error = "not-allowed" THEN "denied" ELSE @,
            !.isListening = FALSE]

\* recognition.onerror, the end event following before the next render or not.
OnErrorOn(x, error, thenEnd) ==
    /\ x[2].st \in {"starting", "halting", "started", "stopping"}
    /\ error = "not-allowed" => (x[2].st \in {"starting", "halting"} /\ chat.permission # "granted")
    /\ error = "no-speech" => x[2].st \in {"started", "stopping"}
    /\ Settle(onerror(Put(chat, x[1], x[2], IF thenEnd THEN "idle" ELSE "ending"), error),
              isLoading, isAutoListenEnabled, FALSE, FALSE, FALSE)

OnError ==
  \E x \in Recognizers, error \in RecognitionErrors, thenEnd \in BOOLEAN :
    OnErrorOn(x, error, thenEnd)

\* recognition.onend.
OnEndOn(x) ==
    /\ x[2].st \in {"halting", "stopping", "ending"}
    /\ Settle([Put(chat, x[1], x[2], "idle") EXCEPT !.isListening = FALSE],
              isLoading, isAutoListenEnabled, FALSE, FALSE, FALSE)

OnEnd == \E x \in Recognizers : OnEndOn(x)

\* toggleListening that stops without recording the manual stop.
toggleListening_forgetful(c) ==
  IF c.micPermission = "denied" THEN [c EXCEPT !.micError = DeniedSettingsText]
  ELSE IF c.recognition = NoRecognition THEN [c EXCEPT !.micError = NoSupportText]
  ELSE IF c.isListening
  THEN [c EXCEPT !.recognition = stop(@)]
  ELSE IF CanStart(c.recognition)
  THEN [c EXCEPT !.recognition = start(@, "manual"), !.userManuallyStopped = FALSE]
  ELSE [c EXCEPT !.micError = StartFailedText]

\* toggleListening.
toggleListening(c) ==
  IF c.micPermission = "denied" THEN [c EXCEPT !.micError = DeniedSettingsText]
  ELSE IF c.recognition = NoRecognition THEN [c EXCEPT !.micError = NoSupportText]
  ELSE IF c.isListening
  THEN [c EXCEPT !.recognition = stop(@), !.userManuallyStopped = TRUE]
  ELSE IF CanStart(c.recognition)
  THEN [c EXCEPT !.recognition = start(@, "manual"), !.userManuallyStopped = FALSE]
  ELSE [c EXCEPT !.micError = StartFailedText]

\* The microphone button, enabled unless busy or the permission is denied.
MicClick ==
  /\ ~isLoading /\ chat.micPermission # "denied"
  /\ Settle(toggleListening(chat), isLoading, isAutoListenEnabled, FALSE, FALSE, TRUE)

\* handleSend from the text box or a welcome prompt.
VoiceTypedSend ==
  /\ ~isLoading
  /\ \E kind \in SendKinds : Sent(chat, kind, TRUE)

\* A turn commits its title, its text message or its placeholder.
TurnCommit ==
  /\ chat.turns > 0
  /\ Settle(chat, isLoading, isAutoListenEnabled, TRUE, TRUE, FALSE)

\* A turn ends: its last commit if any, and finally.  The text-to-speech
\* effect asks for the audio when the busy flag has just fallen and the last
\* message can be spoken.
TurnDone ==
  /\ chat.turns > 0
  /\ \E outcome \in {"reply", "error", "silent"} :
       LET speak == chat.isTtsEnabled /\ isLoading /\ outcome = "reply"
           c == [chat EXCEPT !.turns = @ - 1, !.tts = IF speak THEN @ + 1 ELSE @]
       IN /\ c.tts + c.decoding + c.sources <= MaxPlays
          /\ Settle(c, FALSE, isAutoListenEnabled, TRUE, outcome # "silent", FALSE)

\* The auto-listen switch of the settings.
ToggleAutoListen ==
  Settle(chat, isLoading, ~isAutoListenEnabled, TRUE, FALSE, TRUE)

\* Any other App state changes: the sidebar, the voice.
AppRender ==
  Settle(chat, isLoading, isAutoListenEnabled, TRUE, FALSE, TRUE)

\* The speaker button.
ToggleTts ==
  Settle([chat EXCEPT !.isTtsEnabled = ~@], isLoading, isAutoListenEnabled, FALSE, FALSE, TRUE)

\* textToSpeech settles: playTextAudio up to its first await, unless the
\* promise rejected or the audio is empty.
TtsArrive ==
  /\ chat.tts > 0
  /\ \E audio \in {"audio", "empty", "rejected"} :
       LET c == IF audio = "audio"
                THEN [chat EXCEPT !.tts = @ - 1,
                                  !.sources = IF chat.active THEN @ - 1 ELSE @,
                                  !.active = FALSE,
                                  !.recognition = stop(@),
                                  !.isTtsPlaying = TRUE,
                                  !.decoding = @ + 1]
                ELSE [chat EXCEPT !.tts = @ - 1]
       IN Settle(c, isLoading, isAutoListenEnabled, FALSE, FALSE, FALSE)

\* decodeAudioData resolves: the source is made, kept and started.
DecodeDone ==
  /\ chat.decoding > 0
  /\ Settle([chat EXCEPT !.decoding = @ - 1, !.sources = @ + 1, !.active = TRUE],
            isLoading, isAutoListenEnabled, FALSE, FALSE, FALSE)

\* A catch block that leaves the playing flag as it is.
DecodeFail_flagKept ==
  /\ chat.decoding > 0
  /\ Settle([chat EXCEPT !.decoding = @ - 1, !.active = FALSE],
            isLoading, isAutoListenEnabled, FALSE, FALSE, FALSE)

\* resume or decodeAudioData rejects: the catch block.
DecodeFail ==
  /\ chat.decoding > 0
  /\ Settle([chat EXCEPT !.decoding = @ - 1, !.isTtsPlaying = FALSE, !.active = FALSE],
            isLoading, isAutoListenEnabled, FALSE, FALSE, FALSE)

\* source.onended, of the source kept in activeAudioSourceRef or of another.
SourceEnded ==
  \E kept \in BOOLEAN :
    /\ IF kept THEN chat.active ELSE chat.sources > (IF chat.active THEN 1 ELSE 0)
    /\ Settle([chat EXCEPT !.sources = @ - 1, !.isTtsPlaying = FALSE,
                           !.active = IF kept THEN FALSE ELSE @],
              isLoading, isAutoListenEnabled, FALSE, FALSE, FALSE)

VoiceNext ==
  \/ QueryResult \/ PermissionChange
  \/ OnStart \/ OnResult \/ OnError \/ OnEnd
  \/ MicClick \/ VoiceTypedSend
  \/ TurnCommit \/ TurnDone
  \/ ToggleAutoListen \/ AppRender \/ ToggleTts
  \/ TtsArrive \/ DecodeDone \/ DecodeFail \/ SourceEnded

VoiceSpec == VoiceInit /\ [][VoiceNext]_vars

\* The platform delivers the end event of every recognition that was stopped
\* or has delivered its result or its error.
VoiceFairSpec == VoiceSpec /\ WF_vars(OnEnd)

\* ---------------------------------------------------------------- C13
\* C13: at most one of Listening (isListening) and TtsPlaying (isTtsPlaying)
\* holds in every reachable state.
C13_ListeningXorPlaying == ~(chat.isListening /\ chat.isTtsPlaying)

\* ---------------------------------------------------------------- C14
\* C14: a start caused by auto-listen never brings the controller into
\* Listening while the currently-playing flag is true: no start event of a
\* recognizer that the auto-listen effect started leaves isListening and
\* isTtsPlaying both set.
C14_AutoStartNotWhilePlaying ==
  [][\A x \in Recognizers :
       (OnStartOn(x) /\ x[2].by = "auto") =>
         ~(chat'.isListening /\ chat'.isTtsPlaying)]_vars

\* ---------------------------------------------------------------- C15
\* C15: the auto-listen policy requests a start only when auto-listen is
\* enabled, the busy flag is false, the controller is not listening, the
\* manually-stopped flag is clear, nothing is playing and no mic error is set.
C15_AutoStartOnlyWhenClear ==
  autoStart =>
    /\ isAutoListenEnabled
    /\ ~isLoading
    /\ ~chat.isListening
    /\ ~chat.userManuallyStopped
    /\ ~chat.isTtsPlaying
    /\ chat.micError = NoMicError

\* The effect has just asked for a start at the end of a turn whose reply is
\* still to be spoken, and the recognizer took it.
C15_Witness ==
  /\ autoStart
  /\ chat.tts > 0
  /\ chat.recognition = [st |-> "starting", by |-> "auto"]

\* ---------------------------------------------------------------- C16
\* The combined condition of the auto-listen policy, in the current render.
ConditionHolds == ShouldListen(chat, isLoading, isAutoListenEnabled)

\* Nothing is on its way that could change the state without the user: no
\* turn, no audio, no permission query, no event of a replaced recognizer.
Quiet ==
  /\ chat.turns = 0 /\ chat.tts = 0 /\ chat.decoding = 0 /\ chat.sources = 0
  /\ chat.replaced = {} /\ ~chat.queryPending

\* C16: auto-listen is level-triggered: whenever the combined condition
\* holds, a start is requested, so that the controller returns to Listening
\* without user action.  In a browser with a recognizer, when the condition
\* holds and nothing else is pending, the recognizer has been started (its
\* start event is due); it is not left idle, waiting for the user.
C16_RearmsWhenClear ==
  (ConditionHolds /\ Quiet /\ chat.recognition # NoRecognition) =>
    chat.recognition.st # "idle"

\* ---------------------------------------------------------------- C17
\* The recognizers of the state, the replaced ones included.
AllRecognizers == {chat.recognition} \cup chat.replaced

\* The end event of a recognizer is due: it was stopped, or it has delivered
\* its result or its error.
EndDue == \E r \in AllRecognizers : r.st \in {"halting", "stopping", "ending"}

\* With the switch off and isListening set, no recognizer is left started
\* without a stop, and the end event that clears isListening is due.
DisabledMeansStopping ==
  (~isAutoListenEnabled /\ chat.isListening) =>
    /\ \A r \in AllRecognizers : r.st # "started"
    /\ EndDue

\* C17: when auto-listen is disabled while Listening, a stop is requested at
\* once and the controller returns to Idle (isListening false), the end
\* events being delivered.
C17_DisabledStopsListening ==
  /\ []DisabledMeansStopping
  /\ (~isAutoListenEnabled /\ chat.isListening) ~> ~chat.isListening

\* The switch has just been turned off while listening: the recognizer that
\* was listening is the replaced one, stopped by an auto-listen start.
C17_Witness ==
  /\ ~isAutoListenEnabled /\ chat.isListening
  /\ chat.recognition = NewRecognition
  /\ chat.replaced = {[st |-> "stopping", by |-> "auto"]}

\* ---------------------------------------------------------------- C18
\* The microphone button pressed while isListening is set: a manual stop().
ManualStop == chat.isListening /\ MicClick

\* The microphone button pressed while isListening is clear: a manual start().
ManualStart == ~chat.isListening /\ MicClick

\* A prompt handed to onSendMessage: handleSend past its guard, or a spoken
\* result with a transcript.
PromptHandedOver ==
  \/ VoiceTypedSend
  \/ \E x \in Recognizers, kind \in SendKinds, thenEnd \in BOOLEAN :
       OnResultOn(x, kind, thenEnd)

\* A manual stop sets the flag and stops the recognizer.
ManualStopStops ==
  [][ManualStop =>
       /\ chat'.userManuallyStopped
       /\ chat'.recognition.st \notin {"starting", "started"}]_vars

\* While the flag and isListening are both set, every recognizer that had
\* started has been told to stop and its end event is due.
StoppedMeansStopping ==
  (chat.userManuallyStopped /\ chat.isListening) =>
    /\ \A r \in AllRecognizers : r.st # "started"
    /\ EndDue

\* While the flag is set the auto-listen effect calls no start().
StoppedNeverRearms == chat.userManuallyStopped => ~autoStart

\* C18 as stated: a manual stop() while Listening returns to Idle and sets
\* the manually-stopped flag; while it is set auto-listen never re-arms; the
\* flag stays set until the next successful send clears it.
C18_ClearedOnlyBySend ==
  /\ ManualStopStops
  /\ []StoppedMeansStopping
  /\ (chat.userManuallyStopped /\ chat.isListening) ~> ~chat.isListening
  /\ []StoppedNeverRearms
  /\ [][(chat.userManuallyStopped /\ ~chat'.userManuallyStopped) => PromptHandedOver]_vars

\* C18, amended: the flag stays set until the next send or the next manual
\* start() clears it.
C18_ClearedBySendOrStart ==
  /\ ManualStopStops
  /\ []StoppedMeansStopping
  /\ (chat.userManuallyStopped /\ chat.isListening) ~> ~chat.isListening
  /\ []StoppedNeverRearms
  /\ [][(chat.userManuallyStopped /\ ~chat'.userManuallyStopped) =>
          (PromptHandedOver \/ ManualStart)]_vars

\* The user has just stopped a recognizer that was listening: the flag is
\* set, the recognizer is stopping, isListening is still to be cleared.
C18_Witness ==
  /\ chat.userManuallyStopped /\ chat.isListening
  /\ chat.recognition.st = "stopping"
  /\ isAutoListenEnabled /\ ~isLoading

\* ---------------------------------------------------------------- C19
\* The controller is Denied: micPermission is 'denied' in a browser that has a
\* recognizer.  It is Unsupported: the browser has none.
Denied(c) == c.micPermission = "denied" /\ c.recognition # NoRecognition
Unsupported(c) == c.recognition = NoRecognition

\* The step makes a recognizer begin a recognition: start() was called and
\* accepted.
StartAccepted ==
  /\ chat'.recognition.st = "starting"
  /\ chat.recognition.st # "starting"

\* Denied or Unsupported after the step, no start() was accepted in it.
NoStartWhenBarred ==
  [][(Denied(chat') \/ Unsupported(chat')) => ~StartAccepted]_vars

\* toggleListening run in a Denied or Unsupported state starts nothing and
\* leaves an error to show.
ManualStartRefused ==
  (Denied(chat) \/ Unsupported(chat)) =>
    /\ toggleListening(chat).micError # NoMicError
    /\ toggleListening(chat).recognition = chat.recognition

\* micPermission leaves 'denied' only when the platform reports another state.
DeniedUntilReported ==
  [][(Denied(chat) /\ ~Denied(chat')) =>
       /\ QueryResult \/ PermissionChange
       /\ chat'.permission # "denied"
       /\ chat'.micPermission = chat'.permission]_vars

\* C19: once Denied or Unsupported, neither a manual start() nor auto-listen
\* begins listening, and a manual start() sets a user-visible error; Denied
\* stays until the platform permission reports non-denied.
C19_BarredNeverStarts ==
  /\ NoStartWhenBarred
  /\ []ManualStartRefused
  /\ DeniedUntilReported

\* ---------------------------------------------------------------- C20
\* The error kinds the handler keeps silent about, and the others that are
\* not the permission error.
SilentErrors == {"no-speech", "network", "aborted"}
OtherErrors == RecognitionErrors \ (SilentErrors \cup {"not-allowed"})

\* A silent error clears isListening and leaves micError and micPermission
\* as they were.
SilentErrorsSilent ==
  [][\A x \in Recognizers, error \in SilentErrors, thenEnd \in BOOLEAN :
       OnErrorOn(x, error, thenEnd) =>
         /\ ~chat'.isListening
         /\ chat'.micError = chat.micError
         /\ chat'.micPermission = chat.micPermission]_vars

\* Another error clears isListening and sets the generic message, not the
\* permission.
OtherErrorsShown ==
  [][\A x \in Recognizers, error \in OtherErrors, thenEnd \in BOOLEAN :
       OnErrorOn(x, error, thenEnd) =>
         /\ ~chat'.isListening
         /\ chat'.micError = RecognitionErrorText
         /\ chat'.micPermission = chat.micPermission]_vars

\* The generic message does not keep listening from starting again: when the
\* recognizer has ended with such an error and the rest of the auto-listen
\* condition holds, the effect asks for a start as it does after a silent error.
OtherErrorsDoNotBlock ==
  [][\A x \in Recognizers, error \in OtherErrors :
       (/\ OnErrorOn(x, error, TRUE)
        /\ isAutoListenEnabled' /\ ~isLoading'
        /\ ~chat'.userManuallyStopped /\ ~chat'.isTtsPlaying
        /\ chat.isListening) => autoStart']_vars

\* C20: the error kinds no-speech, network and aborted return the controller
\* to Idle without setting an error; any other non-permission error sets a
\* non-sticky user-visible error that does not block listening from starting
\* again.
C20_TransientErrorsDoNotBlock ==
  /\ SilentErrorsSilent
  /\ OtherErrorsShown
  /\ OtherErrorsDoNotBlock

\* ---------------------------------------------------------------- C22
\* C22: playback is single-flight: at every moment at most one playback source
\* has been started and has neither ended nor been stopped, also when two
\* playTextAudio calls overlap across their resume / decode steps.
C22_SingleFlight == chat.sources <= 1

\* ================================================================ persistence
\* What an earlier run, or an earlier version of the program, may have stored.
MaxStoredSessions == 3
MaxStoredExtra == 2

StoredKinds == {"text", "image", "generated", "sources", "error"}

\* The JSON text of the message at position j: a text-only user message, a
\* user message with a picture, a model message with a generated picture, one
\* with citations, an error-flagged one; with its id or, as older versions
\* stored it, without.
StoredMessage(kind, withId, j) ==
  LET role == IF kind \in {"text", "image"} THEN "user" ELSE "model"
      core == [role |-> role, text |-> <<"t", j>>]
      body == CASE kind = "text" -> core
                [] kind = "image" -> [role |-> role, text |-> <<"t", j>>, image |-> TRUE]
                [] kind = "generated" ->
                     [role |-> role, text |-> <<"t", j>>, generatedImage |-> TRUE]
                [] kind = "sources" ->
                     [role |-> role, text |-> <<"t", j>>,
                      sources |-> << [uri |-> "u1", title |-> "s1"],
                                     [uri |-> "u2", title |-> "s2"] >>]
                [] kind = "error" -> [role |-> role, text |-> <<"t", j>>, isError |-> TRUE]
  IN IF withId
     THEN [k \in DOMAIN body \cup {"id"} |-> IF k = "id" THEN <<role, -j>> ELSE body[k]]
     ELSE body

StoredShapes == StoredKinds \X BOOLEAN

\* The stored session number i: the greeting, then the messages of the shapes.
StoredSession(i, shapes) ==
  [id |-> SessionId(-i), title |-> <<"Old", i>>,
   messages |-> <<StringifyMessage(createInitialMessage(-i))>> \o
                [j \in 1..Len(shapes) |-> StoredMessage(shapes[j][1], shapes[j][2], j)]]

ShapeLists == UNION { [1..n -> StoredShapes] : n \in 1..MaxStoredExtra }

\* Up to MaxStoredSessions sessions that differ in id, title and greeting and
\* hold messages of the same shapes.
StoredCollections ==
  { [i \in 1..c[1] |-> StoredSession(i, c[2])] : c \in (1..MaxStoredSessions) \X ShapeLists }

\* The page is opened on what some earlier run stored, or on nothing usable.
RoundTripInit ==
  /\ chatSessions = <<>>
  /\ activeChatId = None
  /\ isLoading = FALSE
  /\ now = 0
  /\ tasks = <<>>
  /\ rec = NoRec
  /\ storage \in { JsonRecord(J) : J \in StoredCollections } \cup UnusableRecords
  /\ booted = FALSE
  /\ ops = 0
  /\ last = Last("init", <<>>, <<>>)
  /\ failedCalls = {}
  /\ isAutoListenEnabled = TRUE
  /\ chat = Mount(TRUE, "granted")
  /\ autoStart = TRUE
  /\ prevIsLoading = Undefined
  /\ spoken = NoMsg

\* The page is reloaded: the program starts again, with the useState initial
\* values and with what the save effect wrote last.  last.arg keeps the
\* collection the program held.
Reload ==
  /\ booted /\ UserInput
  /\ tasks = <<>> /\ ~rec.on
  /\ chatSessions' = <<>>
  /\ activeChatId' = None
  /\ isLoading' = FALSE
  /\ booted' = FALSE
  /\ prevIsLoading' = Undefined
  /\ spoken' = NoMsg
  /\ last' = Last("reload", chatSessions, <<>>)
  /\ UNCHANGED <<now, tasks, rec, storage, failedCalls, voiceVars>>

RoundTripNext == Boot \/ Tick \/ Reload

\* Save and load alone: boots and reloads on a stored collection.
RoundTripSpec == RoundTripInit /\ [][RoundTripNext]_vars

\* ---------------------------------------------------------------- mount, step by step
\* The effects of the first render, in the order they are declared: the load
\* effect reads the record and queues its state updates; the save effect of
\* that same render stores the collection the render holds, the useState
\* initial value [].  last.arg keeps the record the load effect read.
MountEffects ==
  /\ ~booted /\ last.op # "mount"
  /\ storage' = Save(<<>>)
  /\ last' = Last("mount", storage, <<>>)
  /\ NoRender
  /\ UNCHANGED <<chatSessions, activeChatId, isLoading, now, tasks, rec, booted, ops,
                 failedCalls, voiceVars>>

\* The render that follows: the queued updates of the load effect are in
\* place and the save effect stores the loaded collection.
MountCommit ==
  /\ ~booted /\ last.op = "mount"
  /\ booted' = TRUE
  /\ \E R \in [StoredIdless(last.arg) -> Randoms] :
       LET res == loadSessions(last.arg, now, R)
       IN /\ chatSessions' = res.sessions
          /\ activeChatId' = res.active
          /\ storage' = Save(res.sessions)
          /\ TtsEffect(res.sessions, res.active, isLoading, chat.isTtsEnabled)
  /\ last' = Last("boot", last.arg, <<>>)
  /\ UNCHANGED <<isLoading, now, tasks, rec, ops, failedCalls, voiceVars>>

\* The page is closed or reloaded before that render: the program starts
\* again on what the save effect wrote.
MountAbort ==
  /\ ~booted /\ last.op = "mount" /\ UserInput
  /\ last' = Last("reload", chatSessions, <<>>)
  /\ NoRender
  /\ UNCHANGED <<chatSessions, activeChatId, isLoading, now, tasks, rec, storage, booted,
                 failedCalls, voiceVars>>

MountNext == MountEffects \/ MountCommit \/ MountAbort \/ Tick \/ Reload

\* Boots and reloads with the two renders of the mount told apart.
MountSpec == RoundTripInit /\ [][MountNext]_vars

\* ---------------------------------------------------------------- C28
\* Message j of session i of L is message j of session i of S in every
\* property but the id.
SameButId(S, L, i, j) ==
  LET a == S[i].messages[j]
      b == L[i].messages[j]
  IN /\ DOMAIN a = DOMAIN b
     /\ \A k \in DOMAIN a \ {"id"} : a[k] = b[k]

\* The id of message j is no other message's id in list M.
UniqueIn(M, j) == \A n \in 1..Len(M) : n # j => M[n].id # M[j].id

\* L is S with an id given to the messages that had none: sessions in order
\* with their ids and titles, messages in order with every property they had;
\* a new id is an id and is unique within its session.
LoadedFrom(S, L) ==
  /\ Len(L) = Len(S)
  /\ \A i \in 1..Len(S) :
       /\ L[i].id = S[i].id /\ L[i].title = S[i].title
       /\ Len(L[i].messages) = Len(S[i].messages)
       /\ \A j \in 1..Len(S[i].messages) :
            /\ SameButId(S, L, i, j)
            /\ IF S[i].messages[j].id # NoId
               THEN L[i].messages[j].id = S[i].messages[j].id
               ELSE L[i].messages[j].id # NoId /\ UniqueIn(L[i].messages, j)

\* The load effect runs on a stored collection that is not empty.
LoadStep == BootStep /\ storage.kind = "json" /\ Len(storage.sessions) > 0

SubCalls == {"generateImage", "solveComplexTask"}

\* Nothing is done before the text commit, and a sub-call is issued right
\* after the commit of its placeholder.
EffectsInOrder(log) ==
  \A k \in 1..Len(log) :
    /\ log[k] = "text" => k = 1
    /\ log[k] \in SubCalls => (k > 1 /\ log[k-1] = "placeholder")

\* The list the step leaves in the session of task i, if the session exists.
CommittedBy(i) == MessagesOf(chatSessions', tasks[i].sid)

\* The response's text message follows the handler's own list.
TextCommitted(i, response) ==
  LET own == tasks[i].msgs
      M == CommittedBy(i)
  IN (response.text /\ FindSession(chatSessions, tasks[i].sid) # 0) =>
       /\ Len(M) > Len(own)
       /\ SubSeq(M, 1, Len(own)) = own
       /\ M[Len(own) + 1] = Msg(<<"model", now>>, "model", ReplyText, FALSE, FALSE, FALSE)

\* The placeholder is the last message of the committed list, after the
\* text message if there is one, and its sub-call is the one issued.
PlaceholderCommitted(i, response) ==
  LET own == tasks[i].msgs
      M == CommittedBy(i)
  IN response.fn \in SubCalls =>
       /\ Len(tasks') = Len(tasks) /\ tasks'[i].pc = "sub"
       /\ last'.calls = <<response.fn>>
       /\ FindSession(chatSessions, tasks[i].sid) # 0 =>
            /\ Len(M) = Len(own) + (IF response.text THEN 2 ELSE 1)
            /\ M[Len(M)] = tasks'[i].think
            /\ M[Len(M)].id = <<"thinking", now>>

\* The final commit holds the result last and no message with the
\* placeholder's id.
PlaceholderReplaced(i) ==
  LET M == CommittedBy(i)
  IN FindSession(chatSessions, tasks[i].sid) # 0 =>
       /\ \A k \in 1..Len(M) : M[k].id # tasks[i].think.id
       /\ M # <<>>
       /\ M[Len(M)].id \in {<<"gen-img", now>>, <<"complex", now>>}
       /\ SubSeq(M, 1, Len(M) - 1) = WithoutId(tasks[i].base, tasks[i].think.id)

IsNotGreeting(m) == m.id[1] # "initial"
WithoutGreeting(M) == SelectSeq(M, IsNotGreeting)

\* The turn the step started.
NewTurn == tasks'[Len(tasks')]

\* A send starts a turn on the messages its session held before the step.
SendHistoryBy(sendOps) ==
  (TurnStarted /\ last'.op \in sendOps /\ FindSession(chatSessions, NewTurn.sid) # 0) =>
    NewTurn.hist = WithoutGreeting(MessagesOf(chatSessions, NewTurn.sid))

SendHistory == SendHistoryBy(SendOps)

\* Save & Submit on bubble j starts a turn on the messages before the message
\* it edits (the first one carrying the bubble's id) and sends the edited
\* text alone.
EditHistory ==
  \A j \in 1..MaxMessages + 1 :
    (last'.op = "saveEdit" /\ EditInvoked(j, last'.arg[2])) =>
      LET old == chatSessions[ActiveIdx].messages
          idx == FindMessage(old, old[j].id)
      IN /\ Len(tasks') = Len(tasks) + 1
         /\ NewTurn.hist = WithoutGreeting(SubSeq(old, 1, idx - 1))
         /\ NewTurn.message = Trim(last'.arg[2])
         /\ ~NewTurn.image

\* C32: the history given to the backend for a send is the session's message
\* sequence as it was before the new user message, without the seed
\* greeting; for edit-and-resend it is the messages strictly before the
\* edited message, without the seed greeting, and only the edited text (no
\* image) is sent as the new turn.
C32_BackendHistory == [][SendHistory /\ EditHistory]_vars

\* ---------------------------------------------------------------- C33
\* The trash button of the row of session id.
TrashStep(id) ==
  \E i \in 1..MaxSessions : DeleteChatClickOn(i) /\ chatSessions[i].id = id

\* A confirmed `delete this chat`, given on the paths sendOps: it deletes the
\* activeChatId of the handler that runs.
CommandDeleteStep(id, sendOps) ==
  /\ last'.op \in sendOps
  /\ FoldedPrompt(last'.arg[1]) = CmdDeleteChat
  /\ TypedStep(last'.arg[1], TRUE) \/ VoiceStep(last'.arg[1], TRUE)
  /\ id = HandlerActive

\* The session id is gone, the others are kept in their order, and the active
\* pointer stays or moves to the first remaining session.
Deleted(id) ==
  LET rest == WithoutId(chatSessions, id)
  IN /\ rest # <<>> => chatSessions' = rest
     /\ activeChatId # id => activeChatId' = activeChatId
     /\ (activeChatId = id /\ rest # <<>>) => activeChatId' = rest[1].id

DeleteSessionBy(sendOps) ==
  \A i \in 1..Len(chatSessions) :
    LET id == chatSessions[i].id
    IN (TrashStep(id) \/ CommandDeleteStep(id, sendOps)) => Deleted(id)

\* C33: deleteSession(id) removes exactly the session with that id and keeps
\* the others in their order; if the deleted session was not the active one
\* the active pointer is unchanged, and if it was active and sessions remain,
\* the first remaining session becomes active.
C33_DeleteSession == [][DeleteSessionBy(SendOps)]_vars


\* ---------------------------------------------------------------- C35
\* The step resumes the turn in slot i.
ResumedTurn(i) ==
  /\ i \in Slots
  /\ last'.op = "resume"
  /\ \/ tasks' = RemoveAt(tasks, i)
     \/ Len(tasks') = Len(tasks) /\ tasks'[i] # tasks[i]

MessageSet(M) == { M[k] : k \in 1..Len(M) }

\* The messages of its session that the turn in slot i neither found when it
\* started nor committed itself: what other operations have committed to the
\* session since.
CommittedByOthers(i) ==
  MessageSet(MessagesOf(chatSessions, tasks[i].sid)) \
    (MessageSet(tasks[i].msgs) \cup MessageSet(tasks[i].base) \cup {tasks[i].think})

\* C35: a commit made by a turn after its start (title commit, response text,
\* placeholder, final result, error message) never discards a message that
\* another operation (help, another send, an edit) committed to the same
\* session after the turn took its snapshot.
C35_CommitsKeepOthers ==
  [][\A i \in 1..MaxTasks :
       ResumedTurn(i) => CommittedByOthers(i) \subseteq MessageSet(CommittedBy(i))]_vars


\* ---------------------------------------------------------------- C36
\* The step changes at most one session, one whose id is sid, and keeps the
\* number and the order of the sessions.
OnlyChanged(sid) ==
  /\ Len(chatSessions') = Len(chatSessions)
  /\ \A k \in 1..Len(chatSessions) :
       chatSessions'[k] # chatSessions[k] =>
         /\ chatSessions[k].id = sid /\ chatSessions'[k].id = sid
         /\ \A j \in 1..Len(chatSessions) : j # k => chatSessions'[j] = chatSessions[j]

\* The first commit of a turn goes to the session that is active.
StartCommit ==
  TurnStarted => (NewTurn.sid = activeChatId /\ OnlyChanged(activeChatId))

\* The later commits go to the session the turn started in, if it still
\* exists.
LaterCommits ==
  \A i \in 1..MaxTasks :
    ResumedTurn(i) =>
      /\ OnlyChanged(tasks[i].sid)
      /\ FindSession(chatSessions, tasks[i].sid) = 0 => chatSessions' = chatSessions

\* No two sessions carry the same id (no two were created within one
\* millisecond).
DistinctSessionIds ==
  \A a, b \in 1..Len(chatSessions) : a # b => chatSessions[a].id # chatSessions[b].id

\* C36: every commit of a turn modifies only the session that was active when
\* the turn started and leaves all other sessions and their order unchanged,
\* also when another session is selected meanwhile; if the originating
\* session was deleted meanwhile, the commit changes nothing and no session
\* is re-created.
C36_CommitsStayInSession ==
  [][DistinctSessionIds => (StartCommit /\ LaterCommits)]_vars

\* ---------------------------------------------------------------- C37
\* The response of the suspended turn tk carried text: its model message was
\* pushed on the list before the placeholder was built.
CarriedText(tk) == Len(tk.base) = Len(tk.msgs) + 1

\* The text message committed at the start of response handling.
TextMessageOf(tk) == tk.base[Len(tk.base)]

\* C37: when a response carries both text and a generateImage or
\* solveComplexTask call and the sub-call fails, the text message committed
\* at the start of response handling is still in the session's final list,
\* followed by the error message.
C37_TextKeptOnSubFailure ==
  [][\A i \in 1..MaxTasks, failure \in Failures :
       (/\ SubFailStep(i, failure)
        /\ CarriedText(tasks[i])
        /\ FindSession(chatSessions, tasks[i].sid) # 0) =>
         LET M == CommittedBy(i)
         IN /\ Len(M) >= 2
            /\ M[Len(M)].isError
            /\ M[Len(M) - 1] = TextMessageOf(tasks[i])]_vars

\* ---------------------------------------------------------------- C38
\* The step completes the turn in slot i: its handler reaches finally.
CompletedTurn(i) ==
  /\ i \in Slots
  /\ last'.op = "resume"
  /\ tasks' = RemoveAt(tasks, i)

\* m is a model message the turn in slot i has appended to its own session,
\* after the list the turn started from, and that session is the one shown.
AppendedByTurn(i, m) ==
  LET M == CommittedBy(i)
  IN /\ activeChatId' = tasks[i].sid
     /\ \E k \in (Len(tasks[i].msgs) + 1)..Len(M) : M[k] = m /\ m.role = "model"

\* C38: the text handed to text-to-speech when a turn completes is the text
\* of a model message appended by that very turn to the session the turn
\* belongs to, never an older message and never a message of another
\* session (one selected while the turn was in flight).
C38_SpokenIsOwnReply ==
  [][\A i \in 1..MaxTasks :
       (CompletedTurn(i) /\ spoken' # NoMsg) => AppendedByTurn(i, spoken')]_vars

\* ---------------------------------------------------------------- C39
\* A stored record that holds a collection with at least one session.
HoldsSessions(record) == record.kind = "json" /\ Len(record.sessions) > 0

SessionIds(J) == { J[i].id : i \in 1..Len(J) }

\* The record written holds every session of the record found.
KeepsSessionsOf(written, found) ==
  /\ written.kind = "json"
  /\ SessionIds(found.sessions) \subseteq SessionIds(written.sessions)

\* C39: booting with a valid, non-empty persisted store never writes the
\* persisted record with a collection that lacks the stored sessions (in
\* particular never the empty collection) between the start of the program
\* and the moment the loaded collection is in place.
C39_BootKeepsStore ==
  [][(~booted /\ HoldsSessions(storage)) => KeepsSessionsOf(storage', storage)]_vars

\* ================================================================ playback
\* ---------------------------------------------------------------- C34
\* resume and decodeAudioData settle, and a started source plays its buffer
\* to the end.
PlaybackFairSpec ==
  VoiceSpec /\ WF_vars(DecodeDone \/ DecodeFail) /\ WF_vars(SourceEnded)

\* A playback is pending (playTextAudio awaits) or active (a started source
\* whose onended is set).
PlaybackPending == chat.decoding > 0
PlaybackActive == chat.sources > 0

\* Sooner or later no speech is requested any more.
RequestsCease == <>[](chat.tts = 0)

\* C34: once the playing flag is set by a playback start it is eventually
\* cleared (natural end, or failure of resume, decode or start), also when a
\* playback is replaced by a newer one; it is never left set when no playback
\* is active or pending.
C34_PlayingFlagCleared ==
  /\ [](chat.isTtsPlaying => (PlaybackPending \/ PlaybackActive))
  /\ RequestsCease => (chat.isTtsPlaying ~> ~chat.isTtsPlaying)

\* The flag is set while one playback awaits its audio and another plays.
C34_Witness ==
  chat.isTtsPlaying /\ PlaybackPending /\ PlaybackActive

====
